---- MODULE Spec2Model ----
(***************************************************************************)
(* The reporting engine of the expense tracker backend                     *)
(* (src/blueprints/reports.py, src/validators.py) over the ledger written  *)
(* by the expense, income and category handlers.                           *)
(*                                                                         *)
(* Text (month tokens, dates, rendered amounts) is a sequence of           *)
(* one-character strings, so that parsing and formatting are computed.     *)
(* Money is an integer number of cents; a Decimal that is not a whole      *)
(* number of cents is the exact fraction num/den until it is quantized.    *)
(* A calendar date is <<year, month, day>>.                                *)
(*                                                                         *)
(* A record constructor lists its fields in the order in which the field   *)
(* names first appear in this module, the order in which TLC keeps them,   *)
(* so that no value is re-ordered while two workers read it.               *)
(***************************************************************************)
EXTENDS Integers, Sequences, FiniteSets, TLC

VARIABLES
    categories,  \* rows of table categories
    expenses,    \* rows of table expenses
    income,      \* rows of table income
    today,       \* date.today() of the server
    budgets,     \* rows of table budgets
    inflight,    \* the handler that has begun and not yet answered
    request,     \* the request being answered
    queries,     \* the statements the request has issued, in order
    response     \* the answer to the request

vars == <<categories, expenses, income, today, budgets, inflight, request, queries, response>>

----------------------------------------------------------------------------
(* Text *)

Digits == <<"0", "1", "2", "3", "4", "5", "6", "7", "8", "9">>

IsDigit(c) == \E i \in 1..10 : Digits[i] = c

DigitVal(c) == (CHOOSE i \in 1..10 : Digits[i] = c) - 1

\* int(text) of a text of decimal digits
RECURSIVE ParseInt(_)
ParseInt(t) ==
    IF Len(t) = 0 THEN 0
    ELSE 10 * ParseInt(SubSeq(t, 1, Len(t) - 1)) + DigitVal(t[Len(t)])

\* str(n) of a natural number
RECURSIVE DecStr(_)
DecStr(n) ==
    IF n < 10 THEN <<Digits[n + 1]>>
    ELSE DecStr(n \div 10) \o <<Digits[(n % 10) + 1]>>

\* f"{n:0{w}d}": zero-padded to at least w digits
RECURSIVE ZeroPad(_, _)
ZeroPad(t, w) == IF Len(t) >= w THEN t ELSE ZeroPad(<<"0">> \o t, w)

Pad2(n) == ZeroPad(DecStr(n), 2)

Pad4(n) == ZeroPad(DecStr(n), 4)

\* the value None of an absent query parameter or field
None == <<"None">>

----------------------------------------------------------------------------
(* Calendar: datetime.date *)

MINYEAR == 1

MAXYEAR == 9999

IsLeap(y) == (y % 4 = 0) /\ ((y % 100 # 0) \/ (y % 400 = 0))

\* calendar.monthrange(y, m)[1]
DaysInMonth(y, m) ==
    IF m = 2 THEN (IF IsLeap(y) THEN 29 ELSE 28)
    ELSE IF m \in {4, 6, 9, 11} THEN 30 ELSE 31

\* date(y, m, d) raises ValueError outside the supported range
ValidDate(y, m, d) ==
    /\ y >= MINYEAR /\ y <= MAXYEAR
    /\ m >= 1 /\ m <= 12
    /\ d >= 1 /\ d <= DaysInMonth(y, m)

\* what a raised exception leaves in place of a value
ValueError == <<"ValueError">>

OverflowError == <<"OverflowError">>

\* d - timedelta(days=1); OverflowError before date.min
DayBefore(d) ==
    IF d[3] > 1 THEN <<d[1], d[2], d[3] - 1>>
    ELSE IF d[2] > 1 THEN <<d[1], d[2] - 1, DaysInMonth(d[1], d[2] - 1)>>
    ELSE IF d[1] > MINYEAR THEN <<d[1] - 1, 12, 31>>
    ELSE OverflowError

\* comparison of dates (date <= date, and the store's date >= / <=)
DateLeq(a, b) ==
    \/ a[1] < b[1]
    \/ a[1] = b[1] /\ a[2] < b[2]
    \/ a[1] = b[1] /\ a[2] = b[2] /\ a[3] <= b[3]

\* d.strftime('%Y-%m-%d'), str(d) of a date (four-digit year as documented)
IsoDate(d) == Pad4(d[1]) \o <<"-">> \o Pad2(d[2]) \o <<"-">> \o Pad2(d[3])

\* d.strftime('%Y-%m')
IsoMonth(d) == Pad4(d[1]) \o <<"-">> \o Pad2(d[2])

\* the store's reading of a 'YYYY-MM-DD' literal as a date
ParseIsoDate(t) ==
    <<ParseInt(SubSeq(t, 1, 4)), ParseInt(SubSeq(t, 6, 7)), ParseInt(SubSeq(t, 9, 10))>>

----------------------------------------------------------------------------
(* src/validators.py *)

\* MONTH_REGEX.match(t): ^\d{4}-(0[1-9]|1[0-2])$ where $ also matches
\* before one trailing newline
MONTH_REGEX(t) ==
    /\ Len(t) = 7 \/ (Len(t) = 8 /\ t[8] = "\n")
    /\ \A i \in 1..4 : IsDigit(t[i])
    /\ t[5] = "-"
    /\ \/ t[6] = "0" /\ IsDigit(t[7]) /\ t[7] # "0"
       \/ t[6] = "1" /\ t[7] \in {"0", "1", "2"}

\* datetime.strptime(t, '%Y-%m') of a text MONTH_REGEX matched: the date
\* of the first of the month, or ValueError (unconverted data remains,
\* year 0 is out of range)
StrptimeMonth(t) ==
    IF Len(t) # 7 THEN ValueError
    ELSE IF ~ValidDate(ParseInt(SubSeq(t, 1, 4)), ParseInt(SubSeq(t, 6, 7)), 1)
         THEN ValueError
    ELSE <<ParseInt(SubSeq(t, 1, 4)), ParseInt(SubSeq(t, 6, 7)), 1>>

ErrMonthRequired == "Month parameter is required (format: YYYY-MM)"

ErrMonthFormat == "Invalid month format. Use YYYY-MM"

ErrMonthValue == "Invalid month value"

\* validate_month(month_string) -> (valid, error)
validate_month(month_string) ==
    IF month_string = None \/ Len(month_string) = 0
    THEN [valid |-> FALSE, error |-> ErrMonthRequired]
    ELSE IF ~MONTH_REGEX(month_string)
    THEN [valid |-> FALSE, error |-> ErrMonthFormat]
    ELSE IF StrptimeMonth(month_string) = ValueError
    THEN [valid |-> FALSE, error |-> ErrMonthValue]
    ELSE [valid |-> TRUE, error |-> "None"]

\* the position of the first "-" of a text that holds one
FirstDash(t) == CHOOSE i \in 1..Len(t) : t[i] = "-" /\ \A j \in 1..(i - 1) : t[j] # "-"

\* get_month_date_range(month_string) of a pre-validated token:
\* (start_date, end_date) as texts, or the ValueError of date(10000, 1, 1)
get_month_date_range(month_string) ==
    LET year == ParseInt(SubSeq(month_string, 1, FirstDash(month_string) - 1))
        month == ParseInt(SubSeq(month_string, FirstDash(month_string) + 1, Len(month_string)))
        start_date == Pad4(year) \o <<"-">> \o Pad2(month) \o <<"-", "0", "1">>
        next_month_year == IF month = 12 THEN year + 1 ELSE year
        next_month == IF month = 12 THEN 1 ELSE month + 1
    IN  IF ~ValidDate(next_month_year, next_month, 1)
        THEN [start_date |-> start_date, raised |-> TRUE, end_date |-> <<>>]
        ELSE [start_date |-> start_date, raised |-> FALSE,
              end_date |-> IsoDate(DayBefore(<<next_month_year, next_month, 1>>))]

\* Decimal(num/den).quantize(Decimal('0.01'), rounding=ROUND_HALF_UP) in
\* cents: ties go away from zero
Quantize(num, den) ==
    LET mag == IF num < 0 THEN -num ELSE num
        q == (2 * 100 * mag + den) \div (2 * den)
    IN  IF num < 0 THEN -q ELSE q

\* a rendering that does not pad the cents to two digits
CentsTextUnpadded(negative, cents) ==
    LET mag == IF cents < 0 THEN -cents ELSE cents
    IN  (IF negative THEN <<"-">> ELSE <<>>)
        \o DecStr(mag \div 100) \o <<".">> \o DecStr(mag % 100)

\* str() of a Decimal quantized to cents; the sign of the unquantized value
\* is kept, so a small negative value renders "-0.00"
CentsText(negative, cents) ==
    LET mag == IF cents < 0 THEN -cents ELSE cents
    IN  (IF negative THEN <<"-">> ELSE <<>>)
        \o DecStr(mag \div 100) \o <<".">> \o Pad2(mag % 100)

\* format_amount(amount) of the Decimal num/den; None renders "0.00"
format_amount(num, den) == CentsText(num < 0, Quantize(num, den))

format_amount_none == <<"0", ".", "0", "0">>

\* DATE_REGEX.match(t): ^\d{4}-\d{2}-\d{2}$
DATE_REGEX(t) ==
    /\ Len(t) = 10 \/ (Len(t) = 11 /\ t[11] = "\n")
    /\ \A i \in {1, 2, 3, 4, 6, 7, 9, 10} : IsDigit(t[i])
    /\ t[5] = "-" /\ t[8] = "-"

\* validate_date(date_string, reject_future) with date.today() = now
validate_date(date_string, reject_future, now) ==
    IF date_string = None \/ Len(date_string) = 0
    THEN [valid |-> FALSE, error |-> "Date is required"]
    ELSE IF ~DATE_REGEX(date_string)
    THEN [valid |-> FALSE, error |-> "Invalid date format. Use YYYY-MM-DD"]
    ELSE IF Len(date_string) # 10
            \/ ~ValidDate(ParseIsoDate(date_string)[1], ParseIsoDate(date_string)[2],
                          ParseIsoDate(date_string)[3])
    THEN [valid |-> FALSE, error |-> "Invalid date. Check year, month, and day values"]
    ELSE IF reject_future /\ ~DateLeq(ParseIsoDate(date_string), now)
    THEN [valid |-> FALSE, error |-> "Date cannot be in the future"]
    ELSE [valid |-> TRUE, error |-> "None"]

\* the position of the "." of a text, or 0
DotAt(t) == IF \E i \in 1..Len(t) : t[i] = "." THEN CHOOSE i \in 1..Len(t) : t[i] = "." ELSE 0

WhiteSpace == {" ", "\n", "\t"}

\* str.strip(): the text without its leading and trailing white space
RECURSIVE Strip(_)
Strip(t) ==
    IF Len(t) = 0 THEN t
    ELSE IF t[1] \in WhiteSpace THEN Strip(Tail(t))
    ELSE IF t[Len(t)] \in WhiteSpace THEN Strip(SubSeq(t, 1, Len(t) - 1))
    ELSE t

\* str.lower() of the letters a Decimal literal may hold
LowerChar(c) ==
    IF c = "N" THEN "n" ELSE IF c = "A" THEN "a" ELSE IF c = "I" THEN "i"
    ELSE IF c = "F" THEN "f" ELSE IF c = "T" THEN "t" ELSE IF c = "Y" THEN "y"
    ELSE IF c = "S" THEN "s" ELSE IF c = "E" THEN "e" ELSE c

Lower(t) == [i \in 1..Len(t) |-> LowerChar(t[i])]

\* the literals of the values that are not finite
SpecialTexts ==
    {<<"n", "a", "n">>, <<"s", "n", "a", "n">>, <<"i", "n", "f">>,
     <<"i", "n", "f", "i", "n", "i", "t", "y">>}

\* the position of the exponent marker of a lower-case text, or 0
ExpAt(t) == IF \E i \in 1..Len(t) : t[i] = "e" THEN CHOOSE i \in 1..Len(t) : t[i] = "e" ELSE 0

\* getcontext().prec: the digits the coefficient of a result may hold
DecimalPrec == 28

\* Decimal(t) of a text [sign]digits[.digits][e[sign]digits] or of the
\* literal of a special value, white space around it dropped: its sign,
\* coefficient and exponent (as_tuple), or InvalidOperation; the texts
\* here hold neither underscores nor digits outside ASCII
DecimalOf(neg, body, mark) ==
    LET mantissa == IF mark = 0 THEN body ELSE SubSeq(body, 1, mark - 1)
        exp_text == IF mark = 0 THEN <<>> ELSE SubSeq(body, mark + 1, Len(body))
        exp_signed == Len(exp_text) > 0 /\ exp_text[1] \in {"-", "+"}
        exp_digits == IF exp_signed THEN Tail(exp_text) ELSE exp_text
        exp == IF mark = 0 THEN 0
               ELSE IF Len(exp_text) > 0 /\ exp_text[1] = "-" THEN -ParseInt(exp_digits)
               ELSE ParseInt(exp_digits)
        dot == DotAt(mantissa)
        int_part == IF dot = 0 THEN mantissa ELSE SubSeq(mantissa, 1, dot - 1)
        frac_part == IF dot = 0 THEN <<>> ELSE SubSeq(mantissa, dot + 1, Len(mantissa))
        ok == /\ Len(int_part) + Len(frac_part) > 0
              /\ \A i \in 1..Len(int_part) : IsDigit(int_part[i])
              /\ \A i \in 1..Len(frac_part) : IsDigit(frac_part[i])
              /\ mark # 0 => Len(exp_digits) > 0
              /\ \A i \in 1..Len(exp_digits) : IsDigit(exp_digits[i])
    IN  IF body \in SpecialTexts
        THEN [negative |-> neg, invalid |-> FALSE, special |-> body,
              coefficient |-> 0, exponent |-> 0]
        ELSE IF ~ok
        THEN [negative |-> FALSE, invalid |-> TRUE, special |-> <<>>,
              coefficient |-> 0, exponent |-> 0]
        ELSE [negative |-> neg, invalid |-> FALSE, special |-> <<>>,
              coefficient |-> ParseInt(int_part \o frac_part),
              exponent |-> exp - Len(frac_part)]

\* the one element of a set of one element
Only(S) == CHOOSE x \in S : TRUE

\* the sign and the body of a lower-case text
Unsigned(low) ==
    IF Len(low) > 0 /\ low[1] \in {"-", "+"} THEN Tail(low) ELSE low

ParseDecimal(t) ==
    Only({Only({DecimalOf(Len(low) > 0 /\ low[1] = "-", body, ExpAt(body)) :
                body \in {Unsigned(low)}}) :
          low \in {Lower(Strip(t))}})

\* Decimal.is_finite()
is_finite(d) == d.special = <<>>

\* 10 ** n
RECURSIVE Pow10(_)
Pow10(n) == IF n = 0 THEN 1 ELSE 10 * Pow10(n - 1)

\* the checks of validate_amount on amount = Decimal(amount_str)
validate_decimal(d) ==
    IF d.invalid THEN [error |-> "Invalid amount format", amount |-> 0]
    ELSE IF ~is_finite(d)
    THEN [error |-> "Amount must be a valid number", amount |-> 0]
    ELSE IF d.negative \/ d.coefficient = 0
    THEN [error |-> "Amount must be greater than zero", amount |-> 0]
    ELSE IF d.exponent < -2
    THEN [error |-> "Amount cannot have more than 2 decimal places", amount |-> 0]
    ELSE IF Len(DecStr(d.coefficient)) + d.exponent + 2 > DecimalPrec
    THEN [error |-> "Invalid amount format", amount |-> 0]
    ELSE [error |-> "None", amount |-> d.coefficient * Pow10(d.exponent + 2)]

\* validate_amount(amount_value) -> (Decimal in cents, error) of the text
\* str(amount_value); quantize raises InvalidOperation, which the handler
\* of the function catches, when the result needs more than
\* getcontext().prec digits
validate_amount(amount_value) ==
    IF amount_value = None THEN [error |-> "Amount is required", amount |-> 0]
    ELSE IF Len(Strip(amount_value)) = 0 THEN [error |-> "Amount is required", amount |-> 0]
    ELSE Only({validate_decimal(amount) : amount \in {ParseDecimal(Strip(amount_value))}})

\* str(decimal_amount.quantize(Decimal('0.01'), rounding=ROUND_HALF_UP)),
\* or "0.00" where Decimal() or quantize() raises
format_decimal(d) ==
    IF d.invalid THEN format_amount_none
    ELSE IF d.special = <<"n", "a", "n">>
    THEN (IF d.negative THEN <<"-">> ELSE <<>>) \o <<"N", "a", "N">>
    ELSE IF ~is_finite(d) THEN format_amount_none
    ELSE IF d.coefficient = 0 THEN CentsText(d.negative, 0)
    ELSE IF d.exponent < -2
    THEN CentsText(d.negative, Quantize(d.coefficient, Pow10(-d.exponent)))
    ELSE IF Len(DecStr(d.coefficient)) + d.exponent + 2 > DecimalPrec
    THEN format_amount_none
    ELSE CentsText(d.negative, d.coefficient * Pow10(d.exponent + 2))

\* format_amount(amount) of a value whose str() is the text amount_str:
\* a text Decimal() refuses, and a value quantize() refuses (an infinity,
\* a signalling NaN, a result of more than getcontext().prec digits),
\* renders "0.00"; a quiet NaN quantizes to itself
format_amount_value(amount_str) ==
    IF amount_str = None THEN format_amount_none
    ELSE Only({format_decimal(decimal_amount) :
               decimal_amount \in {ParseDecimal(amount_str)}})

----------------------------------------------------------------------------
(* src/errors.py *)

\* error_response(message, status_code)
error_response(message, status_code) ==
    [body |-> [error |-> message], status |-> status_code]

\* the exceptions psycopg2 raises under a SELECT: the connection is lost, or
\* the table is missing
OperationalError ==
    [message |-> "server closed the connection unexpectedly", type |-> "OperationalError"]

UndefinedTable ==
    [message |-> "relation \"expenses\" does not exist", type |-> "UndefinedTable"]

\* the exception psycopg2 raises under an INSERT or UPDATE that would store a
\* second row with a value of a UNIQUE column
UniqueViolation ==
    [message |-> "duplicate key value violates unique constraint", type |-> "UniqueViolation"]

\* handle_db_error(e): the answer that takes the place of the exception e;
\* of the messages here only UndefinedTable's holds "does not exist"
handle_db_error(e) ==
    IF e.type = "UniqueViolation"
    THEN error_response("A record with this value already exists", 409)
    ELSE IF e.type = "ForeignKeyViolation"
    THEN error_response("Referenced record does not exist", 400)
    ELSE IF e.type = "NotNullViolation"
    THEN error_response("Required field is missing", 400)
    ELSE IF e.type \in {"OperationalError", "UndefinedTable"}
    THEN IF e.message = UndefinedTable.message
         THEN error_response("Database table not found. Please run migrations.", 500)
         ELSE error_response("Database connection error", 500)
    ELSE error_response("An unexpected error occurred", 500)

\* handle_db_error(e) of any other exception caught by a handler, and the
\* application's handler of an exception no handler caught
unexpected_error == error_response("An unexpected error occurred", 500)

----------------------------------------------------------------------------
(* Bounds and inputs *)

MaxCategories == 2

MaxExpenses == 2

MaxIncome == 1

\* the latest created_at stamp an expense is given
MaxStamp == 3

Users == {"A", "B"}

D_2024_03_31 == <<"2", "0", "2", "4", "-", "0", "3", "-", "3", "1">>

D_2024_04_01 == <<"2", "0", "2", "4", "-", "0", "4", "-", "0", "1">>

D_2024_04_10 == <<"2", "0", "2", "4", "-", "0", "4", "-", "1", "0">>

D_2024_04_11 == <<"2", "0", "2", "4", "-", "0", "4", "-", "1", "1">>

\* the server's clock
Todays == {<<2024, 4, 10>>}

A_10_00 == <<"1", "0", ".", "0", "0">>

A_20_00 == <<"2", "0", ".", "0", "0">>

A_30_00 == <<"3", "0", ".", "0", "0">>

A_5_00 == <<"5", ".", "0", "0">>

A_0 == <<"0">>

\* "is_split" and "split_amount" of an expense body
Unsplit == [is_split |-> FALSE, split_amount |-> None]

SplitFive == [is_split |-> TRUE, split_amount |-> A_5_00]

\* a category id a request may name
CategoryIdInputs == 1..MaxCategories

\* an expense id a request may name
ExpenseIdInputs == 1..MaxExpenses

----------------------------------------------------------------------------
(* The store: src/database.py *)

\* generate_uuid(): an id no row of the table carries
NewId(rows) == CHOOSE n \in 1..(Cardinality(rows) + 1) : \A r \in rows : r.id # n

\* categories.name is UNIQUE (init_db): INSERT raises UniqueViolation
NameTaken(cats, name) == \E c \in cats : c.name = name

\* SELECT c.name FROM categories c WHERE c.id = id
CategoryName(cats, id) == (CHOOSE c \in cats : c.id = id).name

\* COALESCE(SUM(field), 0) over rows
RECURSIVE SumField(_, _)
SumField(rows, field) ==
    IF rows = {} THEN 0
    ELSE LET r == CHOOSE x \in rows : TRUE
         IN  r[field] + SumField(rows \ {r}, field)

\* MIN(amount), MAX(amount) over a non-empty set of rows
MinAmount(rows) == (CHOOSE r \in rows : \A x \in rows : r.amount <= x.amount).amount

MaxAmount(rows) == (CHOOSE r \in rows : \A x \in rows : r.amount >= x.amount).amount

\* WHERE date >= %s AND date <= %s
InRange(rows, start_date, end_date) ==
    {r \in rows : /\ DateLeq(ParseIsoDate(start_date), r.date)
                  /\ DateLeq(r.date, ParseIsoDate(end_date))}

\* a statement as the store receives it
Statement(sql, params) == [sql |-> sql, params |-> params]

\* what a handler returns when it issued the statements qs
Outcome(resp, qs) == [queries |-> qs, response |-> resp]

\* the statement under which the cursor raised e
Raised(statement, e) == [raised |-> e, sql |-> statement.sql, params |-> statement.params]

\* an except branch that answers with the results gathered before the failure
FailurePartial(e, qs) ==
    Outcome([body |-> [error |-> e.message, completed |-> Len(qs) - 1], status |-> 200],
            SubSeq(qs, 1, Len(qs) - 1) \o <<Raised(qs[Len(qs)], e)>>)

\* a handler's except branch: the statements qs were issued, the last of them
\* raised e
Failure(e, qs) ==
    Outcome(handle_db_error(e), SubSeq(qs, 1, Len(qs) - 1) \o <<Raised(qs[Len(qs)], e)>>)

\* the faults injected into a handler of n statements: none, or the
\* statement at which the cursor raises and the exception it raises
NoFault == [raised |-> [message |-> "", type |-> "none"], at |-> 0]

StoreFaults == {OperationalError, UndefinedTable}

Faults(n) == {NoFault} \cup {[raised |-> e, at |-> k] : k \in 1..n, e \in StoreFaults}

----------------------------------------------------------------------------
(* src/blueprints/categories.py *)

\* format_category(row)
format_category(row) == [id |-> row.id, name |-> row.name, is_active |-> row.is_active]

\* POST /categories as user_id with body name
create_category(cats, user_id, name) ==
    IF name = ""
    THEN [categories |-> cats, response |-> error_response("Category name is required", 400)]
    ELSE IF \E c \in cats : c.name = name /\ c.user_id = user_id
    THEN [categories |-> cats, response |-> error_response("Category name already exists", 409)]
    ELSE IF NameTaken(cats, name)
    THEN [categories |-> cats, response |-> error_response("Category name already exists", 409)]
    ELSE LET row == [id |-> NewId(cats), name |-> name, is_active |-> TRUE, user_id |-> user_id]
         IN  [categories |-> cats \cup {row},
              response |-> [body |-> format_category(row), status |-> 201]]

\* the answer of create_category and update_category to an IntegrityError
IntegrityAnswer(e) ==
    IF e.type = "UniqueViolation"
    THEN error_response("Category name already exists", 409)
    ELSE handle_db_error(e)

\* PUT /categories/<category_id> as user_id: the rename
update_category(cats, user_id, category_id, name) ==
    IF name = ""
    THEN [categories |-> cats, response |-> error_response("Category name is required", 400)]
    ELSE IF ~\E c \in cats : c.id = category_id /\ c.user_id = user_id
    THEN [categories |-> cats, response |-> error_response("Category not found", 404)]
    ELSE IF \E c \in cats : c.name = name /\ c.user_id = user_id /\ c.id # category_id
    THEN [categories |-> cats, response |-> error_response("Category name already exists", 409)]
    ELSE IF \E c \in cats : c.name = name /\ c.id # category_id
    THEN [categories |-> cats, response |-> IntegrityAnswer(UniqueViolation)]
    ELSE LET category == CHOOSE c \in cats : c.id = category_id
             row == [category EXCEPT !.name = name]
         IN  [categories |-> (cats \ {category}) \cup {row},
              response |-> [body |-> format_category(row), status |-> 200]]

\* two of the twelve names of INDIAN_CATEGORIES, in the order of the list
INDIAN_CATEGORIES == <<"Shopping", "Personal Care">>

\* the loop of seed_categories from the k-th name on: stored is the table
\* before the request, to which a failing INSERT rolls back
RECURSIVE seed_loop(_, _, _, _, _, _)
seed_loop(stored, cats, user_id, k, added_count, skipped_count) ==
    IF k > Len(INDIAN_CATEGORIES)
    THEN [categories |-> cats,
          response |-> [body |-> [message |-> <<"Seeding complete. Added: ", added_count,
                                                ", Skipped: ", skipped_count>>,
                                  added |-> added_count,
                                  skipped |-> skipped_count],
                        status |-> 201]]
    ELSE IF \E c \in cats : c.name = INDIAN_CATEGORIES[k] /\ c.user_id = user_id
    THEN seed_loop(stored, cats, user_id, k + 1, added_count, skipped_count + 1)
    ELSE IF NameTaken(cats, INDIAN_CATEGORIES[k])
    THEN [categories |-> stored, response |-> handle_db_error(UniqueViolation)]
    ELSE seed_loop(stored,
                   cats \cup {[id |-> NewId(cats), name |-> INDIAN_CATEGORIES[k],
                               is_active |-> TRUE, user_id |-> user_id]},
                   user_id, k + 1, added_count + 1, skipped_count)

\* POST /categories/seed as user_id
seed_categories(cats, user_id) == seed_loop(cats, cats, user_id, 1, 0, 0)

\* "is_active" of a status body: absent, a boolean, or another JSON value
StatusOn == [is_active |-> TRUE, kind |-> "boolean"]

StatusOff == [is_active |-> FALSE, kind |-> "boolean"]

StatusAbsent == [is_active |-> FALSE, kind |-> "absent"]

StatusText == [is_active |-> FALSE, kind |-> "string"]

\* PATCH /categories/<category_id>/status as user_id
update_category_status(cats, user_id, category_id, status) ==
    IF status.kind = "absent"
    THEN [categories |-> cats, response |-> error_response("is_active status is required", 400)]
    ELSE IF status.kind # "boolean"
    THEN [categories |-> cats, response |-> error_response("is_active must be a boolean", 400)]
    ELSE IF ~\E c \in cats : c.id = category_id /\ c.user_id = user_id
    THEN [categories |-> cats, response |-> error_response("Category not found", 404)]
    ELSE LET category == CHOOSE c \in cats : c.id = category_id
             row == [category EXCEPT !.is_active = status.is_active]
         IN  [categories |-> (cats \ {category}) \cup {row},
              response |-> [body |-> format_category(row), status |-> 200]]

\* DELETE /categories/<category_id> as user_id
delete_category(cats, user_id, category_id) ==
    IF ~\E c \in cats : c.id = category_id /\ c.user_id = user_id
    THEN [categories |-> cats, response |-> error_response("Category not found", 404)]
    ELSE LET category == CHOOSE c \in cats : c.id = category_id
         IN  IF ~category.is_active
             THEN [categories |-> cats,
                   response |-> error_response("Category is already deleted", 400)]
             ELSE [categories |-> (cats \ {category})
                                  \cup {[category EXCEPT !.is_active = FALSE]},
                   response |-> [body |-> [message |-> "Category deleted successfully"],
                                 status |-> 200]]

----------------------------------------------------------------------------
(* src/blueprints/expenses.py *)

\* format_expense(row) with the joined category name
format_expense(row, cats) ==
    [amount |-> format_amount(row.amount, 100), is_split |-> row.is_split,
     split_amount |-> format_amount(row.split_amount, 100),
     id |-> row.id, date |-> IsoDate(row.date),
     category_id |-> row.category_id, category_name |-> CategoryName(cats, row.category_id)]

\* created_at DEFAULT CURRENT_TIMESTAMP: later than the stamp of every row
Stamp(rows) ==
    IF rows = {} THEN 1
    ELSE 1 + (CHOOSE r \in rows : \A x \in rows : r.created_at >= x.created_at).created_at

\* ORDER BY e.date DESC, e.created_at DESC
OrderByDateCreatedDesc(rows) ==
    CHOOSE f \in [1..Cardinality(rows) -> rows] :
        \A i, j \in 1..Cardinality(rows) : i < j =>
            \/ ~DateLeq(f[i].date, f[j].date)
            \/ f[i].date = f[j].date /\ f[i].created_at > f[j].created_at

\* the filters of a listing: None where the parameter is absent, 0 where no
\* category is named
NoFilter == [start_date |-> None, end_date |-> None, category_id |-> 0]

\* GET /expenses as user_id
get_expenses(cats, exps, user_id, filter, fail) ==
    LET checked_start == validate_date(filter.start_date, FALSE, <<MINYEAR, 1, 1>>)
        checked_end == validate_date(filter.end_date, FALSE, <<MINYEAR, 1, 1>>)
        from == filter.start_date # None /\ Len(filter.start_date) > 0
        to == filter.end_date # None /\ Len(filter.end_date) > 0
        rows == {e \in exps :
                    /\ e.user_id = user_id
                    /\ from => DateLeq(ParseIsoDate(filter.start_date), e.date)
                    /\ to => DateLeq(e.date, ParseIsoDate(filter.end_date))
                    /\ filter.category_id # 0 => e.category_id = filter.category_id}
        q1 == Statement("list_expenses", <<user_id, filter>>)
        fetched == OrderByDateCreatedDesc(rows)
    IN  IF from /\ ~checked_start.valid
        THEN Outcome(error_response("Invalid start_date: " \o checked_start.error, 400), <<>>)
        ELSE IF to /\ ~checked_end.valid
        THEN Outcome(error_response("Invalid end_date: " \o checked_end.error, 400), <<>>)
        ELSE IF fail.at = 1 THEN Failure(fail.raised, <<q1>>)
        ELSE Outcome([body |-> [i \in 1..Len(fetched) |-> format_expense(fetched[i], cats)],
                      status |-> 200],
                     <<q1>>)

\* POST /expenses as user_id
create_expense(cats, exps, now, user_id, date, amount, category_id, split) ==
    LET checked_date == validate_date(date, TRUE, now)
        checked_amount == validate_amount(amount)
        checked_split == validate_amount(split.split_amount)
    IN  IF ~checked_date.valid
        THEN [expenses |-> exps, response |-> error_response(checked_date.error, 400)]
        ELSE IF checked_amount.error # "None"
        THEN [expenses |-> exps, response |-> error_response(checked_amount.error, 400)]
        ELSE IF ~\E c \in cats : c.id = category_id /\ c.is_active /\ c.user_id = user_id
        THEN [expenses |-> exps,
              response |-> error_response("Category not found or inactive", 404)]
        ELSE IF split.is_split /\ checked_split.error # "None"
        THEN [expenses |-> exps,
              response |-> error_response("Invalid split_amount: " \o checked_split.error, 400)]
        ELSE LET row == [amount |-> checked_amount.amount, is_split |-> split.is_split,
                         split_amount |-> IF split.is_split THEN checked_split.amount ELSE 0,
                         id |-> NewId(exps), date |-> ParseIsoDate(date),
                         user_id |-> user_id, category_id |-> category_id,
                         created_at |-> Stamp(exps)]
             IN  [expenses |-> exps \cup {row},
                  response |-> [body |-> format_expense(row, cats), status |-> 201]]

\* the body of PUT /expenses/<expense_id>: the keys it holds and their values
Body(keys, date, amount, category_id, is_split, split_amount) ==
    [amount |-> amount, is_split |-> is_split, split_amount |-> split_amount, date |-> date,
     category_id |-> category_id, keys |-> keys]

\* PUT /expenses/<expense_id> as user_id; the cursor may raise at the SELECT
\* of the ownership check (1) or at the UPDATE (2), and the handler rolls back
update_expense(cats, exps, now, user_id, expense_id, data, fail) ==
    LET checked_date == validate_date(data.date, TRUE, now)
        checked_amount == validate_amount(data.amount)
        checked_split == validate_amount(data.split_amount)
        q1 == Statement("own_expense", <<expense_id, user_id>>)
        q2 == Statement("update_expense", <<expense_id, user_id>>)
        refused(resp, qs) == [expenses |-> exps, queries |-> qs, response |-> resp]
    IN  IF data.keys = {}
        THEN refused(error_response("Request body is required", 400), <<>>)
        ELSE IF fail.at = 1
        THEN refused(handle_db_error(fail.raised), Failure(fail.raised, <<q1>>).queries)
        ELSE IF ~\E e \in exps : e.id = expense_id /\ e.user_id = user_id
        THEN refused(error_response("Expense not found", 404), <<q1>>)
        ELSE IF "date" \in data.keys /\ ~checked_date.valid
        THEN refused(error_response(checked_date.error, 400), <<q1>>)
        ELSE IF "amount" \in data.keys /\ checked_amount.error # "None"
        THEN refused(error_response(checked_amount.error, 400), <<q1>>)
        ELSE IF /\ "category_id" \in data.keys
                /\ ~\E c \in cats : /\ c.id = data.category_id
                                     /\ c.is_active
                                     /\ c.user_id = user_id
        THEN refused(error_response("Category not found or inactive", 404), <<q1>>)
        ELSE IF "split_amount" \in data.keys /\ checked_split.error # "None"
        THEN refused(error_response("Invalid split_amount: " \o checked_split.error, 400),
                     <<q1>>)
        ELSE IF fail.at = 2
        THEN refused(handle_db_error(fail.raised), Failure(fail.raised, <<q1, q2>>).queries)
        ELSE LET expense == CHOOSE e \in exps : e.id = expense_id
                 row == [amount |-> IF "amount" \in data.keys THEN checked_amount.amount
                                    ELSE expense.amount,
                         is_split |-> IF "is_split" \in data.keys THEN data.is_split
                                      ELSE expense.is_split,
                         split_amount |-> IF "split_amount" \in data.keys
                                          THEN checked_split.amount
                                          ELSE expense.split_amount,
                         id |-> expense.id,
                         date |-> IF "date" \in data.keys THEN ParseIsoDate(data.date)
                                  ELSE expense.date,
                         user_id |-> expense.user_id,
                         category_id |-> IF "category_id" \in data.keys THEN data.category_id
                                         ELSE expense.category_id,
                         created_at |-> expense.created_at]
             IN  [expenses |-> (exps \ {expense}) \cup {row},
                  queries |-> <<q1, q2>>,
                  response |-> [body |-> format_expense(row, cats), status |-> 200]]

\* a delete that looks for the id alone, whoever owns the expense
delete_expense_any(exps, user_id, expense_id, fail) ==
    LET q1 == Statement("own_expense", <<expense_id, user_id>>)
        q2 == Statement("delete_expense", <<expense_id, user_id>>)
    IN  IF fail.at = 1
        THEN [expenses |-> exps, queries |-> Failure(fail.raised, <<q1>>).queries,
              response |-> handle_db_error(fail.raised)]
        ELSE IF ~\E e \in exps : e.id = expense_id
        THEN [expenses |-> exps, queries |-> <<q1>>,
              response |-> error_response("Expense not found", 404)]
        ELSE IF fail.at = 2
        THEN [expenses |-> exps, queries |-> Failure(fail.raised, <<q1, q2>>).queries,
              response |-> handle_db_error(fail.raised)]
        ELSE [expenses |-> {e \in exps : e.id # expense_id},
              queries |-> <<q1, q2>>,
              response |-> [body |-> [message |-> "Expense deleted successfully"],
                            status |-> 200]]

\* DELETE /expenses/<expense_id> as user_id; the cursor may raise at the
\* SELECT of the ownership check (1) or at the DELETE (2)
delete_expense(exps, user_id, expense_id, fail) ==
    LET q1 == Statement("own_expense", <<expense_id, user_id>>)
        q2 == Statement("delete_expense", <<expense_id, user_id>>)
    IN  IF fail.at = 1
        THEN [expenses |-> exps, queries |-> Failure(fail.raised, <<q1>>).queries,
              response |-> handle_db_error(fail.raised)]
        ELSE IF ~\E e \in exps : e.id = expense_id /\ e.user_id = user_id
        THEN [expenses |-> exps, queries |-> <<q1>>,
              response |-> error_response("Expense not found", 404)]
        ELSE IF fail.at = 2
        THEN [expenses |-> exps, queries |-> Failure(fail.raised, <<q1, q2>>).queries,
              response |-> handle_db_error(fail.raised)]
        ELSE [expenses |-> {e \in exps : e.id # expense_id},
              queries |-> <<q1, q2>>,
              response |-> [body |-> [message |-> "Expense deleted successfully"],
                            status |-> 200]]

----------------------------------------------------------------------------
(* src/blueprints/income.py *)

\* POST /income as user_id
create_income(incs, now, user_id, date, amount) ==
    LET checked_date == validate_date(date, TRUE, now)
        checked_amount == validate_amount(amount)
    IN  IF ~checked_date.valid
        THEN [income |-> incs, response |-> error_response(checked_date.error, 400)]
        ELSE IF checked_amount.error # "None"
        THEN [income |-> incs, response |-> error_response(checked_amount.error, 400)]
        ELSE LET row == [amount |-> checked_amount.amount, id |-> NewId(incs),
                         date |-> ParseIsoDate(date), user_id |-> user_id]
             IN  [income |-> incs \cup {row},
                  response |-> [body |-> [amount |-> format_amount(row.amount, 100),
                                          id |-> row.id, date |-> IsoDate(row.date)],
                                status |-> 201]]

----------------------------------------------------------------------------
(* src/blueprints/reports.py *)

\* the split share added to the expenses instead of taken off them
net_spending_added(total_expense, total_split) == total_expense + total_split

\* net_spending = total_expense - total_split
net_spending(total_expense, total_split) == total_expense - total_split

\* net_balance = total_income - net_spending
net_balance(total_income, spending) == total_income - spending

\* savings_rate = (net_balance / total_income * 100) if total_income > 0
\* else Decimal('0'), rendered by format_amount
savings_rate(balance, total_income) ==
    IF total_income > 0 THEN format_amount(balance * 100, total_income)
    ELSE format_amount(0, 1)

\* GET /reports/monthly-summary?month=...; statement number fail (if any)
\* raises in the store
monthly_summary(exps, incs, month, fail) ==
    LET checked == validate_month(month)
        range == get_month_date_range(month)
        q1 == Statement("expense_stats", <<range.start_date, range.end_date>>)
        q2 == Statement("income_stats", <<range.start_date, range.end_date>>)
        expense_rows == InRange(exps, range.start_date, range.end_date)
        income_rows == InRange(incs, range.start_date, range.end_date)
        transaction_count == Cardinality(expense_rows)
        total_expense == SumField(expense_rows, "amount")
        total_split == SumField(expense_rows, "split_amount")
        total_income == SumField(income_rows, "amount")
        spending == net_spending(total_expense, total_split)
        balance == net_balance(total_income, spending)
    IN  IF ~checked.valid THEN Outcome(error_response(checked.error, 400), <<>>)
        ELSE IF range.raised THEN Outcome(unexpected_error, <<>>)
        ELSE IF fail.at = 1 THEN Failure(fail.raised, <<q1>>)
        ELSE IF fail.at = 2 THEN Failure(fail.raised, <<q1, q2>>)
        ELSE Outcome(
            [body |-> [month |-> month,
                       start_date |-> range.start_date,
                       end_date |-> range.end_date,
                       total_expense |-> format_amount(total_expense, 100),
                       net_spending |-> format_amount(spending, 100),
                       net_balance |-> format_amount(balance, 100),
                       total_income |-> format_amount(total_income, 100),
                       savings_rate |-> savings_rate(balance, total_income),
                       expense_count |-> transaction_count,
                       total_owed |-> format_amount(total_split, 100),
                       average_expense |->
                           IF transaction_count = 0 THEN format_amount(0, 1)
                           ELSE format_amount(total_expense, 100 * transaction_count),
                       min_expense |->
                           IF transaction_count = 0 THEN format_amount(0, 1)
                           ELSE format_amount(MinAmount(expense_rows), 100),
                       max_expense |->
                           IF transaction_count = 0 THEN format_amount(0, 1)
                           ELSE format_amount(MaxAmount(expense_rows), 100),
                       income_count |-> Cardinality(income_rows)],
             status |-> 200],
            <<q1, q2>>)

\* every arrangement of the rows of a result
Arrangements(rows) ==
    {f \in [1..Cardinality(rows) -> rows] :
        \A i, j \in 1..Cardinality(rows) : i # j => f[i] # f[j]}

\* the rows in ascending order of total
OrderByTotalAsc(rows) ==
    {f \in Arrangements(rows) :
        \A i, j \in 1..Cardinality(rows) : i < j => f[i].total_amount <= f[j].total_amount}

\* ORDER BY total_amount DESC: rows of equal total come in any order
OrderByTotalDesc(rows) ==
    {f \in Arrangements(rows) :
        \A i, j \in 1..Cardinality(rows) : i < j => f[i].total_amount >= f[j].total_amount}

\* the totals of every category, the inactive ones too
CategoryTotalsAll(cats, exps, start_date, end_date) ==
    {[category_id |-> c.id,
      category_name |-> c.name,
      transaction_count |->
          Cardinality({e \in InRange(exps, start_date, end_date) : e.category_id = c.id}),
      total_amount |->
          SumField({e \in InRange(exps, start_date, end_date) : e.category_id = c.id},
                   "amount")] : c \in cats}

\* SELECT ... FROM categories c LEFT JOIN expenses e ON c.id = e.category_id
\* AND e.date >= %s AND e.date <= %s WHERE c.is_active = TRUE
\* GROUP BY c.id, c.name
CategoryTotals(cats, exps, start_date, end_date) ==
    {[category_id |-> c.id,
      category_name |-> c.name,
      transaction_count |->
          Cardinality({e \in InRange(exps, start_date, end_date) : e.category_id = c.id}),
      total_amount |->
          SumField({e \in InRange(exps, start_date, end_date) : e.category_id = c.id},
                   "amount")] : c \in {x \in cats : x.is_active}}

\* the share as a fraction, without the factor 100
percentage_unscaled(cat_amount, total_amount) ==
    IF total_amount > 0 THEN format_amount(cat_amount, total_amount)
    ELSE format_amount(0, 1)

\* percentage = (cat_amount / total_amount * 100) if total_amount > 0
\* else Decimal('0'), rendered by format_amount
percentage(cat_amount, total_amount) ==
    IF total_amount > 0 THEN format_amount(cat_amount * 100, total_amount)
    ELSE format_amount(0, 1)

\* the breakdown list built from the fetched rows
Breakdown(fetched, total_amount) ==
    [i \in 1..Len(fetched) |->
        [category_id |-> fetched[i].category_id,
         category_name |-> fetched[i].category_name,
         transaction_count |-> fetched[i].transaction_count,
         total_amount |-> format_amount(fetched[i].total_amount, 100),
         percentage |-> percentage(fetched[i].total_amount, total_amount)]]

\* GET /reports/category-breakdown?month=...: the outcomes the store's
\* ordering allows
category_breakdown(cats, exps, month, fail) ==
    LET checked == validate_month(month)
        range == get_month_date_range(month)
        q1 == Statement("sum_expenses", <<range.start_date, range.end_date>>)
        q2 == Statement("category_totals", <<range.start_date, range.end_date>>)
        total_amount == SumField(InRange(exps, range.start_date, range.end_date), "amount")
    IN  IF ~checked.valid THEN {Outcome(error_response(checked.error, 400), <<>>)}
        ELSE IF range.raised THEN {Outcome(unexpected_error, <<>>)}
        ELSE IF fail.at = 1 THEN {Failure(fail.raised, <<q1>>)}
        ELSE IF fail.at = 2 THEN {Failure(fail.raised, <<q1, q2>>)}
        ELSE {Outcome(
                [body |-> [categories |-> Breakdown(fetched, total_amount),
                           month |-> month,
                           start_date |-> range.start_date,
                           end_date |-> range.end_date,
                           total_amount |-> format_amount(total_amount, 100)],
                 status |-> 200],
                <<q1, q2>>) :
              fetched \in OrderByTotalDesc(
                  CategoryTotals(cats, exps, range.start_date, range.end_date))}

\* the dates of the rows, latest first
RECURSIVE OrderByDateDesc(_)
OrderByDateDesc(dates) ==
    IF dates = {} THEN <<>>
    ELSE LET last == CHOOSE d \in dates : \A x \in dates : x[1] < d[1]
                         \/ (x[1] = d[1] /\ x[2] < d[2])
                         \/ (x[1] = d[1] /\ x[2] = d[2] /\ x[3] <= d[3])
         IN  <<last>> \o OrderByDateDesc(dates \ {last})

\* GROUP BY date ORDER BY date ASC: the dates of the rows, ascending
RECURSIVE OrderByDateAsc(_)
OrderByDateAsc(dates) ==
    IF dates = {} THEN <<>>
    ELSE LET first == CHOOSE d \in dates : \A x \in dates : DateLeq(d, x)
         IN  <<first>> \o OrderByDateAsc(dates \ {first})

\* SELECT date, COUNT(*), SUM(amount) FROM expenses WHERE ... GROUP BY date
\* ORDER BY date ASC
DailyTotals(exps, start_date, end_date) ==
    LET rows == InRange(exps, start_date, end_date)
        dates == OrderByDateAsc({r.date : r \in rows})
    IN  [i \in 1..Len(dates) |->
            [date |-> dates[i],
             transaction_count |-> Cardinality({r \in rows : r.date = dates[i]}),
             total_amount |-> SumField({r \in rows : r.date = dates[i]}, "amount")]]

\* the day's own total, nothing carried over from the days before
running_total_reset(daily_data, k) == IF k = 0 THEN 0 ELSE daily_data[k].total_amount

\* running_total after the first k rows of the loop
RECURSIVE running_total(_, _)
running_total(daily_data, k) ==
    IF k = 0 THEN 0 ELSE running_total(daily_data, k - 1) + daily_data[k].total_amount

\* the trend list built by the loop over daily_data
Trend(daily_data) ==
    [i \in 1..Len(daily_data) |->
        [date |-> IsoDate(daily_data[i].date),
         transaction_count |-> daily_data[i].transaction_count,
         running_total |-> format_amount(running_total(daily_data, i), 100),
         daily_total |-> format_amount(daily_data[i].total_amount, 100)]]

\* a daily trend that issues its statement before it looks at the token
daily_trend_unchecked(exps, month, fail) ==
    LET checked == validate_month(month)
        range == get_month_date_range(month)
        q1 == Statement("daily_totals", <<range.start_date, range.end_date>>)
        daily_data == DailyTotals(exps, range.start_date, range.end_date)
    IN  IF ~checked.valid
        THEN Outcome(error_response(checked.error, 400),
                     <<Statement("daily_totals", <<None, None>>)>>)
        ELSE IF range.raised THEN Outcome(unexpected_error, <<>>)
        ELSE IF fail.at = 1 THEN Failure(fail.raised, <<q1>>)
        ELSE Outcome(
            [body |-> [month |-> month,
                       start_date |-> range.start_date,
                       end_date |-> range.end_date,
                       total_amount |->
                           format_amount(running_total(daily_data, Len(daily_data)), 100),
                       daily_data |-> Trend(daily_data),
                       days_with_expenses |-> Len(Trend(daily_data))],
             status |-> 200],
            <<q1>>)

\* GET /reports/daily-trend?month=...
daily_trend(exps, month, fail) ==
    LET checked == validate_month(month)
        range == get_month_date_range(month)
        q1 == Statement("daily_totals", <<range.start_date, range.end_date>>)
        daily_data == DailyTotals(exps, range.start_date, range.end_date)
    IN  IF ~checked.valid THEN Outcome(error_response(checked.error, 400), <<>>)
        ELSE IF range.raised THEN Outcome(unexpected_error, <<>>)
        ELSE IF fail.at = 1 THEN Failure(fail.raised, <<q1>>)
        ELSE Outcome(
            [body |-> [month |-> month,
                       start_date |-> range.start_date,
                       end_date |-> range.end_date,
                       total_amount |->
                           format_amount(running_total(daily_data, Len(daily_data)), 100),
                       daily_data |-> Trend(daily_data),
                       days_with_expenses |-> Len(Trend(daily_data))],
             status |-> 200],
            <<q1>>)

RECURSIVE GCD(_, _)
GCD(a, b) == IF b = 0 THEN a ELSE GCD(b, a % b)

\* the Decimal quotient num / den has finitely many digits (it is exact in
\* the context's 28 digits)
Terminates(num, den) ==
    LET d == den \div GCD(num, den)
    IN  \E i \in 0..5, j \in 0..2 : d = (2 ^ i) * (5 ^ j)

\* round(float(num / den), 1) in tenths: the nearest tenth; a tie the float
\* holds exactly (.25, .75) goes to the even tenth, any other tie goes where
\* the float nearest to it lies
RoundFloat1(num, den) ==
    LET mag == IF num < 0 THEN -num ELSE num
        q == (10 * mag) \div den
        r == (10 * mag) % den
        tenths == IF 2 * r < den THEN {q}
                  ELSE IF 2 * r > den THEN {q + 1}
                  ELSE IF q % 10 = 2 THEN {q}
                  ELSE IF q % 10 = 7 THEN {q + 1}
                  ELSE {q, q + 1}
    IN  {IF num < 0 THEN -t ELSE t : t \in tenths}

\* round(float(pct), 1) of pct = (diff / base * 100) if base > 0 else 0
PercentChange(diff, base) == IF base > 0 THEN RoundFloat1(diff * 100, base) ELSE {0}

\* the length of the month whatever the clock says
days_passed_elapsed(now, year, month, days_in_month) == days_in_month

\* the day of the clock, whatever the month asked for
days_passed_today(now, year, month, days_in_month) == now[3]

\* days_passed of get_insights
days_passed(now, year, month, days_in_month) ==
    IF now[1] = year /\ now[2] = month THEN now[3]
    ELSE IF ~DateLeq(now, <<year, month, days_in_month>>) THEN days_in_month
    ELSE 1

\* format_amount(daily_avg) of daily_avg = current_total / days_passed
\* if days_passed > 0 else 0
daily_average(current_total, passed) ==
    IF passed > 0 THEN format_amount(current_total, 100 * passed) ELSE format_amount(0, 1)

\* the projection with the two day counts exchanged
projected_total_swapped(current_total, passed, days_in_month) ==
    {format_amount(current_total * passed, 100 * days_in_month)}

\* format_amount(projected) of projected = daily_avg * days_in_month: the
\* quotient is rounded to 28 digits before the product, so a projection that
\* is exactly half a cent renders up or down when the quotient is inexact
projected_total(current_total, passed, days_in_month) ==
    LET num == current_total * days_in_month
        den == 100 * passed
        cents == Quantize(num, den)
        tie == (2 * 100 * num) % (2 * den) = den
    IN  IF passed <= 0 THEN {format_amount(0, 1)}
        ELSE IF tie /\ ~Terminates(current_total, passed)
        THEN {CentsText(FALSE, cents), CentsText(FALSE, cents - 1)}
        ELSE {CentsText(FALSE, cents)}

\* the comparison query without its WHERE c.is_active = TRUE
CategoryComparisonAll(cats, exps, start_date, end_date, ps, pe) ==
    LET joined(name) == {e \in exps : \E c \in cats : c.name = name /\ c.id = e.category_id}
        grouped == {[name |-> name,
                     current_amount |->
                         SumField(InRange(joined(name), start_date, end_date), "amount"),
                     prev_amount |-> SumField(InRange(joined(name), ps, pe), "amount")] :
                    name \in {c.name : c \in cats}}
    IN  {row \in grouped : row.current_amount > 0 \/ row.prev_amount > 0}

\* SELECT c.name, SUM(CASE ...) current_amount, SUM(CASE ...) prev_amount
\* FROM categories c LEFT JOIN expenses e ON c.id = e.category_id
\* WHERE c.is_active = TRUE GROUP BY c.name HAVING ... > 0 OR ... > 0
CategoryComparison(cats, exps, start_date, end_date, ps, pe) ==
    LET joined(name) == {e \in exps : \E c \in cats : /\ c.is_active
                                                      /\ c.name = name
                                                      /\ c.id = e.category_id}
        grouped == {[name |-> name,
                     current_amount |->
                         SumField(InRange(joined(name), start_date, end_date), "amount"),
                     prev_amount |-> SumField(InRange(joined(name), ps, pe), "amount")] :
                    name \in {c.name : c \in {x \in cats : x.is_active}}}
    IN  {row \in grouped : row.current_amount > 0 \/ row.prev_amount > 0}

\* the entries the loop over cat_comparison may append for one row
Comparison(row) ==
    {[name |-> row.name,
      diff |-> format_amount(row.current_amount - row.prev_amount, 100),
      current |-> format_amount(row.current_amount, 100),
      previous |-> format_amount(row.prev_amount, 100),
      percent |-> pct] :
     pct \in PercentChange(row.current_amount - row.prev_amount, row.prev_amount)}

\* the comparisons lists the loop may build: the rows come in any order
Comparisons(rows) ==
    UNION {{list \in [1..Cardinality(rows) -> UNION {Comparison(r) : r \in rows}] :
                \A i \in 1..Cardinality(rows) : list[i] \in Comparison(fetched[i])} :
           fetched \in Arrangements(rows)}

\* GET /reports/insights?month=... with date.today() = now: the outcomes the
\* store's ordering and the float rounding allow
get_insights(cats, exps, now, month, fail) ==
    LET checked == validate_month(month)
        range == get_month_date_range(month)
        month_dt == StrptimeMonth(month)
        days_in_month == DaysInMonth(month_dt[1], month_dt[2])
        passed == days_passed(now, month_dt[1], month_dt[2], days_in_month)
        q1 == Statement("sum_expenses", <<range.start_date, range.end_date>>)
        prev_month_dt == DayBefore(<<month_dt[1], month_dt[2], 1>>)
        prev == get_month_date_range(IsoMonth(prev_month_dt))
        q2 == Statement("sum_expenses", <<prev.start_date, prev.end_date>>)
        q3 == Statement("category_comparison",
                        <<range.start_date, range.end_date, prev.start_date, prev.end_date,
                          range.start_date, range.end_date, prev.start_date, prev.end_date>>)
        current_total == SumField(InRange(exps, range.start_date, range.end_date), "amount")
        prev_total == SumField(InRange(exps, prev.start_date, prev.end_date), "amount")
        cat_comparison == CategoryComparison(cats, exps, range.start_date, range.end_date,
                                             prev.start_date, prev.end_date)
    IN  IF ~checked.valid THEN {Outcome(error_response(checked.error, 400), <<>>)}
        ELSE IF range.raised THEN {Outcome(unexpected_error, <<>>)}
        ELSE IF fail.at = 1 THEN {Failure(fail.raised, <<q1>>)}
        ELSE IF prev_month_dt = OverflowError THEN {Outcome(unexpected_error, <<q1>>)}
        ELSE IF prev.raised THEN {Outcome(unexpected_error, <<q1>>)}
        ELSE IF fail.at = 2 THEN {Failure(fail.raised, <<q1, q2>>)}
        ELSE IF fail.at = 3 THEN {Failure(fail.raised, <<q1, q2, q3>>)}
        ELSE {Outcome(
                [body |-> [days_in_month |-> days_in_month,
                           days_passed |-> passed,
                           daily_average |-> daily_average(current_total, passed),
                           projected_total |-> projected,
                           prev_month_total |-> format_amount(prev_total, 100),
                           total_difference_percent |-> diff_pct,
                           category_comparisons |-> comparisons],
                 status |-> 200],
                <<q1, q2, q3>>) :
              projected \in projected_total(current_total, passed, days_in_month),
              diff_pct \in PercentChange(current_total - prev_total, prev_total),
              comparisons \in Comparisons(cat_comparison)}

\* the results in the order the loop appended them
Unreversed(list) == list

\* list(reversed(results))
RECURSIVE Reversed(_)
Reversed(list) ==
    IF list = <<>> THEN <<>> ELSE Reversed(Tail(list)) \o <<Head(list)>>

\* request.args.get('months', 6, type=int): the default when the parameter
\* is absent
DefaultMonths == 6

\* the loop of get_trends from its iteration i on, current_date being the
\* first day of year-month
RECURSIVE trends_loop(_, _, _, _, _, _, _, _, _)
trends_loop(exps, incs, year, month, i, count, fail, results, qs) ==
    LET month_str == Pad4(year) \o <<"-">> \o Pad2(month)
        range == get_month_date_range(month_str)
        q1 == Statement("sum_expenses", <<range.start_date, range.end_date>>)
        q2 == Statement("sum_income", <<range.start_date, range.end_date>>)
        exp == SumField(InRange(exps, range.start_date, range.end_date), "amount")
        inc == SumField(InRange(incs, range.start_date, range.end_date), "amount")
        savings == inc - exp
        previous == IF month = 1 THEN <<year - 1, 12>> ELSE <<year, month - 1>>
    IN  IF i >= count THEN {Outcome([body |-> Reversed(results), status |-> 200], qs)}
        ELSE IF range.raised THEN {Outcome(unexpected_error, qs)}
        ELSE IF fail.at = 2 * i + 1 THEN {Failure(fail.raised, qs \o <<q1>>)}
        ELSE IF fail.at = 2 * i + 2 THEN {Failure(fail.raised, qs \o <<q1, q2>>)}
        ELSE IF previous[1] < MINYEAR THEN {Outcome(unexpected_error, qs \o <<q1, q2>>)}
        ELSE UNION {trends_loop(exps, incs, previous[1], previous[2], i + 1, count, fail,
                                results \o <<[expenses |-> format_amount(exp, 100),
                                              income |-> format_amount(inc, 100),
                                              month |-> month_str,
                                              savings_rate |-> rate,
                                              savings |-> format_amount(savings, 100)]>>,
                                qs \o <<q1, q2>>) :
                    rate \in PercentChange(savings, inc)}

\* request.args.get('months', 6, type=int): int(text), or the default when
\* the parameter is absent or int() raises ValueError
months_arg(text) ==
    LET signed == Len(text) > 1 /\ text[1] \in {"-", "+"}
        digits == IF signed THEN Tail(text) ELSE text
    IN  IF text = None THEN DefaultMonths
        ELSE IF Len(digits) = 0 \/ \E i \in 1..Len(digits) : ~IsDigit(digits[i])
        THEN DefaultMonths
        ELSE IF signed /\ text[1] = "-" THEN -ParseInt(digits)
        ELSE ParseInt(digits)

\* GET /reports/trends?months=... with date.today() = now
get_trends(exps, incs, now, months, fail) ==
    trends_loop(exps, incs, now[1], now[2], 0, months_arg(months), fail, <<>>, <<>>)

----------------------------------------------------------------------------
(* src/blueprints/budgets.py *)

\* the store's order of the category names the requests carry
Collation == <<"Food", "Groceries", "Rent", "Shopping">>

NameRank(name) == CHOOSE i \in 1..Len(Collation) : Collation[i] = name

\* POST /budgets as user_id: the budget of a category, made or replaced
save_budget(cats, buds, user_id, category_id, amount) ==
    LET checked_amount == validate_amount(amount)
    IN  IF checked_amount.error # "None"
        THEN [budgets |-> buds, response |-> error_response(checked_amount.error, 400)]
        ELSE IF ~\E c \in cats : c.id = category_id /\ c.user_id = user_id
        THEN [budgets |-> buds, response |-> error_response("Category not found", 404)]
        ELSE IF \E b \in buds : b.category_id = category_id /\ b.user_id = user_id
        THEN LET existing == CHOOSE b \in buds :
                                 b.category_id = category_id /\ b.user_id = user_id
                 row == [existing EXCEPT !.amount = checked_amount.amount]
             IN  [budgets |-> (buds \ {existing}) \cup {row},
                  response |-> [body |-> [amount |-> format_amount(row.amount, 100),
                                          id |-> row.id,
                                          category_id |-> category_id,
                                          category_name |-> CategoryName(cats, category_id)],
                                status |-> 200]]
        ELSE LET row == [amount |-> checked_amount.amount, id |-> NewId(buds),
                         user_id |-> user_id, category_id |-> category_id]
             IN  [budgets |-> buds \cup {row},
                  response |-> [body |-> [amount |-> format_amount(row.amount, 100),
                                          id |-> row.id,
                                          category_id |-> category_id,
                                          category_name |-> CategoryName(cats, category_id)],
                                status |-> 200]]

\* SELECT ... FROM categories c LEFT JOIN budgets b ON c.id = b.category_id
\* AND b.user_id = %s WHERE c.is_active = TRUE AND c.user_id = %s
BudgetRows(cats, buds, user_id) ==
    {[category_id |-> c.id,
      category_name |-> c.name,
      budget_id |-> IF \E b \in buds : b.category_id = c.id /\ b.user_id = user_id
                    THEN (CHOOSE b \in buds : b.category_id = c.id /\ b.user_id = user_id).id
                    ELSE 0,
      budget_amount |-> IF \E b \in buds : b.category_id = c.id /\ b.user_id = user_id
                        THEN (CHOOSE b \in buds :
                                  b.category_id = c.id /\ b.user_id = user_id).amount
                        ELSE 0] : c \in {x \in cats : x.is_active /\ x.user_id = user_id}}

\* SELECT category_id, COALESCE(SUM(amount - split_amount), 0) ... WHERE
\* date >= %s AND date <= %s AND user_id = %s GROUP BY category_id, read
\* at one category (0 where the category has no row)
Spending(exps, start_date, end_date, user_id, category_id) ==
    LET rows == {e \in InRange(exps, start_date, end_date) :
                    e.user_id = user_id /\ e.category_id = category_id}
    IN  SumField(rows, "amount") - SumField(rows, "split_amount")

\* round(float(percentage), 1) of the share of the budget that is spent
BudgetPercentage(spent_amount, budget_amount) ==
    IF budget_amount > 0 THEN RoundFloat1(spent_amount * 100, budget_amount) ELSE {0}

\* the entry of one fetched row; budget_id 0 is None
BudgetEntry(b, spent_amount, pct) ==
    [category_id |-> b.category_id,
     category_name |-> b.category_name,
     percentage |-> pct,
     budget_id |-> b.budget_id,
     budget_amount |-> format_amount(b.budget_amount, 100),
     spent_amount |-> format_amount(spent_amount, 100),
     remaining_amount |-> format_amount(b.budget_amount - spent_amount, 100),
     has_budget |-> b.budget_id # 0]

\* results.sort(key=percentage, reverse=True) of the entries built in the
\* order of ORDER BY c.name: the sort is stable
SortByPercentage(entries) ==
    CHOOSE f \in Arrangements(entries) :
        \A i, j \in 1..Cardinality(entries) : i < j =>
            \/ f[i].percentage > f[j].percentage
            \/ /\ f[i].percentage = f[j].percentage
               /\ NameRank(f[i].category_name) < NameRank(f[j].category_name)

\* GET /budgets/status?month=... as user_id: the outcomes the float
\* rounding allows
get_budget_status(cats, exps, buds, user_id, month, fail) ==
    LET checked == validate_month(month)
        range == get_month_date_range(month)
        q1 == Statement("category_budgets", <<user_id, user_id>>)
        q2 == Statement("category_spending", <<range.start_date, range.end_date, user_id>>)
        fetched == BudgetRows(cats, buds, user_id)
        spent(b) == Spending(exps, range.start_date, range.end_date, user_id, b.category_id)
    IN  IF ~checked.valid THEN {Outcome(error_response(checked.error, 400), <<>>)}
        ELSE IF range.raised THEN {Outcome(unexpected_error, <<>>)}
        ELSE IF fail.at = 1 THEN {Failure(fail.raised, <<q1>>)}
        ELSE IF fail.at = 2 THEN {Failure(fail.raised, <<q1, q2>>)}
        ELSE {Outcome([body |-> SortByPercentage({BudgetEntry(b, spent(b), pick[b]) :
                                                     b \in fetched}),
                       status |-> 200],
                      <<q1, q2>>) :
              pick \in {p \in [fetched -> UNION {BudgetPercentage(spent(b), b.budget_amount) :
                                                     b \in fetched}] :
                            \A b \in fetched :
                                p[b] \in BudgetPercentage(spent(b), b.budget_amount)}}

----------------------------------------------------------------------------
(* Requests *)

M_2024_04 == <<"2", "0", "2", "4", "-", "0", "4">>

M_2024_03 == <<"2", "0", "2", "4", "-", "0", "3">>

M_2024_13 == <<"2", "0", "2", "4", "-", "1", "3">>

NoRequest == [op |-> "none"]

NoResponse == [body |-> [error |-> "none"], status |-> 0]

\* no handler is between two of its statements
Idle == [op |-> "none"]

\* the state of a fresh deployment: init_db() has created empty tables
Init ==
    /\ categories = {}
    /\ expenses = {}
    /\ income = {}
    /\ today \in Todays
    /\ budgets = {}
    /\ inflight = Idle
    /\ request = NoRequest
    /\ queries = <<>>
    /\ response = NoResponse

\* POST /categories
CreateCategory(users, names) ==
    \E u \in users, name \in names :
        LET out == create_category(categories, u, name)
        IN  /\ Cardinality(categories) < MaxCategories
            /\ categories' = out.categories
            /\ request' = [name |-> name, op |-> "create_category", caller |-> u]
            /\ queries' = <<>>
            /\ response' = out.response
            /\ UNCHANGED <<expenses, income, today, budgets, inflight>>

\* POST /categories up to its SELECT: the request answers at once, or goes
\* on to its INSERT after the statements of other requests
CreateCategoryCheck(users, names) ==
    \E u \in users, name \in names :
        /\ inflight = Idle
        /\ Cardinality(categories) < MaxCategories
        /\ request' = [name |-> name, op |-> "create_category", caller |-> u]
        /\ queries' = <<>>
        /\ IF name = ""
           THEN /\ response' = error_response("Category name is required", 400)
                /\ inflight' = Idle
           ELSE IF \E c \in categories : c.name = name /\ c.user_id = u
           THEN /\ response' = error_response("Category name already exists", 409)
                /\ inflight' = Idle
           ELSE /\ response' = NoResponse
                /\ inflight' = [name |-> name, op |-> "create_category", caller |-> u]
        /\ UNCHANGED <<categories, expenses, income, today, budgets>>

\* POST /categories from its INSERT on
CreateCategoryInsert ==
    /\ inflight.op = "create_category"
    /\ LET row == [id |-> NewId(categories), name |-> inflight.name, is_active |-> TRUE,
                   user_id |-> inflight.caller]
       IN  IF NameTaken(categories, inflight.name)
           THEN /\ categories' = categories
                /\ response' = IntegrityAnswer(UniqueViolation)
           ELSE /\ categories' = categories \cup {row}
                /\ response' = [body |-> format_category(row), status |-> 201]
    /\ request' = [name |-> inflight.name, op |-> "create_category",
                   caller |-> inflight.caller]
    /\ queries' = <<>>
    /\ inflight' = Idle
    /\ UNCHANGED <<expenses, income, today, budgets>>

\* PUT /categories/<category_id>
UpdateCategory(users, names) ==
    \E u \in users, id \in CategoryIdInputs, name \in names :
        LET out == update_category(categories, u, id, name)
        IN  /\ categories' = out.categories
            /\ request' = [name |-> name, category_id |-> id, op |-> "update_category",
                           caller |-> u]
            /\ queries' = <<>>
            /\ response' = out.response
            /\ UNCHANGED <<expenses, income, today, budgets, inflight>>

\* PUT /categories/<category_id> up to its second SELECT
UpdateCategoryCheck(users, names) ==
    \E u \in users, id \in CategoryIdInputs, name \in names :
        /\ inflight = Idle
        /\ request' = [name |-> name, category_id |-> id, op |-> "update_category",
                       caller |-> u]
        /\ queries' = <<>>
        /\ IF name = ""
           THEN /\ response' = error_response("Category name is required", 400)
                /\ inflight' = Idle
           ELSE IF ~\E c \in categories : c.id = id /\ c.user_id = u
           THEN /\ response' = error_response("Category not found", 404)
                /\ inflight' = Idle
           ELSE IF \E c \in categories : c.name = name /\ c.user_id = u /\ c.id # id
           THEN /\ response' = error_response("Category name already exists", 409)
                /\ inflight' = Idle
           ELSE /\ response' = NoResponse
                /\ inflight' = [name |-> name, category_id |-> id, op |-> "update_category",
                                caller |-> u]
        /\ UNCHANGED <<categories, expenses, income, today, budgets>>

\* PUT /categories/<category_id> from its UPDATE on
UpdateCategoryRename ==
    /\ inflight.op = "update_category"
    /\ LET category == CHOOSE c \in categories : c.id = inflight.category_id
           row == [category EXCEPT !.name = inflight.name]
       IN  IF \E c \in categories : c.name = inflight.name /\ c.id # inflight.category_id
           THEN /\ categories' = categories
                /\ response' = IntegrityAnswer(UniqueViolation)
           ELSE /\ categories' = (categories \ {category}) \cup {row}
                /\ response' = [body |-> format_category(row), status |-> 200]
    /\ request' = [name |-> inflight.name, category_id |-> inflight.category_id,
                   op |-> "update_category", caller |-> inflight.caller]
    /\ queries' = <<>>
    /\ inflight' = Idle
    /\ UNCHANGED <<expenses, income, today, budgets>>

\* POST /categories/seed
SeedCategories(users) ==
    \E u \in users :
        LET out == seed_categories(categories, u)
        IN  /\ Cardinality(categories) < MaxCategories
            /\ categories' = out.categories
            /\ request' = [op |-> "seed_categories", caller |-> u]
            /\ queries' = <<>>
            /\ response' = out.response
            /\ UNCHANGED <<expenses, income, today, budgets, inflight>>

\* DELETE /categories/<category_id>
DeleteCategory(users) ==
    \E u \in users, id \in CategoryIdInputs :
        LET out == delete_category(categories, u, id)
        IN  /\ categories' = out.categories
            /\ request' = [op |-> "delete_category", caller |-> u]
            /\ queries' = <<>>
            /\ response' = out.response
            /\ UNCHANGED <<expenses, income, today, budgets, inflight>>

\* POST /expenses
CreateExpense(users, dates, amounts, splits) ==
    \E u \in users, date \in dates, amount \in amounts,
       id \in CategoryIdInputs, split \in splits :
        LET out == create_expense(categories, expenses, today, u, date, amount, id, split)
        IN  /\ Cardinality(expenses) < MaxExpenses
            /\ Stamp(expenses) <= MaxStamp
            /\ expenses' = out.expenses
            /\ request' = [op |-> "create_expense", caller |-> u]
            /\ queries' = <<>>
            /\ response' = out.response
            /\ UNCHANGED <<categories, income, today, budgets, inflight>>

\* POST /income
CreateIncome(users, dates, amounts) ==
    \E u \in users, date \in dates, amount \in amounts :
        LET out == create_income(income, today, u, date, amount)
        IN  /\ Cardinality(income) < MaxIncome
            /\ income' = out.income
            /\ request' = [op |-> "create_income", caller |-> u]
            /\ queries' = <<>>
            /\ response' = out.response
            /\ UNCHANGED <<categories, expenses, today, budgets, inflight>>

\* PATCH /categories/<category_id>/status
UpdateCategoryStatus(users, statuses) ==
    \E u \in users, id \in CategoryIdInputs, status \in statuses :
        LET out == update_category_status(categories, u, id, status)
        IN  /\ categories' = out.categories
            /\ request' = [op |-> "update_category_status", caller |-> u]
            /\ queries' = <<>>
            /\ response' = out.response
            /\ UNCHANGED <<expenses, income, today, budgets, inflight>>

\* PUT /expenses/<expense_id>
UpdateExpense(users, bodies) ==
    \E u \in users, id \in ExpenseIdInputs, data \in bodies, fail \in Faults(2) :
        LET out == update_expense(categories, expenses, today, u, id, data, fail)
        IN  /\ expenses' = out.expenses
            /\ request' = [keys |-> data.keys, expense_id |-> id, op |-> "update_expense",
                           caller |-> u]
            /\ queries' = out.queries
            /\ response' = out.response
            /\ UNCHANGED <<categories, income, today, budgets, inflight>>

\* DELETE /expenses/<expense_id>
DeleteExpense(users) ==
    \E u \in users, id \in ExpenseIdInputs, fail \in Faults(2) :
        LET out == delete_expense(expenses, u, id, fail)
        IN  /\ expenses' = out.expenses
            /\ request' = [expense_id |-> id, op |-> "delete_expense", caller |-> u]
            /\ queries' = out.queries
            /\ response' = out.response
            /\ UNCHANGED <<categories, income, today, budgets, inflight>>

\* GET /expenses
GetExpenses(users, filters) ==
    \E u \in users, filter \in filters, fail \in Faults(1) :
        LET out == get_expenses(categories, expenses, u, filter, fail)
        IN  /\ request' = [filter |-> filter, op |-> "get_expenses", caller |-> u]
            /\ queries' = out.queries
            /\ response' = out.response
            /\ UNCHANGED <<categories, expenses, income, today, budgets, inflight>>

\* POST /budgets
SaveBudget(users, amounts) ==
    \E u \in users, id \in CategoryIdInputs, amount \in amounts :
        LET out == save_budget(categories, budgets, u, id, amount)
        IN  /\ budgets' = out.budgets
            /\ request' = [op |-> "save_budget", caller |-> u]
            /\ queries' = <<>>
            /\ response' = out.response
            /\ UNCHANGED <<categories, expenses, income, today, inflight>>

\* GET /budgets/status
GetBudgetStatus(users, months) ==
    \E u \in users, month \in months, fail \in Faults(2) :
        \E out \in get_budget_status(categories, expenses, budgets, u, month, fail) :
            /\ request' = [month |-> month, op |-> "get_budget_status", caller |-> u]
            /\ queries' = out.queries
            /\ response' = out.response
            /\ UNCHANGED <<categories, expenses, income, today, budgets, inflight>>

\* GET /reports/monthly-summary: the handler reads no identity of a caller
MonthlySummary(months) ==
    \E month \in months, fail \in Faults(2) :
        LET out == monthly_summary(expenses, income, month, fail)
        IN  /\ request' = [month |-> month, op |-> "monthly_summary"]
            /\ queries' = out.queries
            /\ response' = out.response
            /\ UNCHANGED <<categories, expenses, income, today, budgets, inflight>>

\* GET /reports/category-breakdown
CategoryBreakdown(months) ==
    \E month \in months, fail \in Faults(2) :
        \E out \in category_breakdown(categories, expenses, month, fail) :
            /\ request' = [month |-> month, op |-> "category_breakdown"]
            /\ queries' = out.queries
            /\ response' = out.response
            /\ UNCHANGED <<categories, expenses, income, today, budgets, inflight>>

\* GET /reports/category-breakdown up to the fetch of its first statement,
\* the grand total: the connection of get_db() runs READ COMMITTED, so the
\* second statement reads what other requests commit from here on
CategoryBreakdownTotal(months) ==
    \E month \in months :
        LET range == get_month_date_range(month)
            q1 == Statement("sum_expenses", <<range.start_date, range.end_date>>)
        IN  /\ inflight = Idle
            /\ validate_month(month).valid
            /\ ~range.raised
            /\ inflight' = [month |-> month,
                            total_amount |-> SumField(InRange(expenses, range.start_date,
                                                              range.end_date), "amount"),
                            op |-> "category_breakdown"]
            /\ request' = [month |-> month, op |-> "category_breakdown"]
            /\ queries' = <<q1>>
            /\ response' = NoResponse
            /\ UNCHANGED <<categories, expenses, income, today, budgets>>

\* GET /reports/category-breakdown from its second statement on
CategoryBreakdownRows ==
    /\ inflight.op = "category_breakdown"
    /\ LET range == get_month_date_range(inflight.month)
           q1 == Statement("sum_expenses", <<range.start_date, range.end_date>>)
           q2 == Statement("category_totals", <<range.start_date, range.end_date>>)
       IN  \E fetched \in OrderByTotalDesc(
                  CategoryTotals(categories, expenses, range.start_date, range.end_date)) :
               /\ response' = [body |-> [categories |->
                                             Breakdown(fetched, inflight.total_amount),
                                         month |-> inflight.month,
                                         start_date |-> range.start_date,
                                         end_date |-> range.end_date,
                                         total_amount |->
                                             format_amount(inflight.total_amount, 100)],
                               status |-> 200]
               /\ queries' = <<q1, q2>>
    /\ request' = [month |-> inflight.month, op |-> "category_breakdown"]
    /\ inflight' = Idle
    /\ UNCHANGED <<categories, expenses, income, today, budgets>>

\* a daily trend that removes the expenses it has read
DailyTrendConsuming(months) ==
    \E month \in months, fail \in Faults(1) :
        LET out == daily_trend(expenses, month, fail)
        IN  /\ request' = [month |-> month, op |-> "daily_trend"]
            /\ queries' = out.queries
            /\ response' = out.response
            /\ expenses' = {}
            /\ UNCHANGED <<categories, income, today, budgets, inflight>>

\* GET /reports/daily-trend
DailyTrend(months) ==
    \E month \in months, fail \in Faults(1) :
        LET out == daily_trend(expenses, month, fail)
        IN  /\ request' = [month |-> month, op |-> "daily_trend"]
            /\ queries' = out.queries
            /\ response' = out.response
            /\ UNCHANGED <<categories, expenses, income, today, budgets, inflight>>

\* GET /reports/insights
GetInsights(months) ==
    \E month \in months, fail \in Faults(3) :
        \E out \in get_insights(categories, expenses, today, month, fail) :
            /\ request' = [month |-> month, op |-> "get_insights"]
            /\ queries' = out.queries
            /\ response' = out.response
            /\ UNCHANGED <<categories, expenses, income, today, budgets, inflight>>

\* the query of the walk that fails (0: none), within its first two months
TrendFaults == Faults(4)

\* GET /reports/trends
GetTrends(counts) ==
    \E months \in counts, fail \in TrendFaults :
        \E out \in get_trends(expenses, income, today, months, fail) :
            /\ request' = [months |-> months, op |-> "get_trends"]
            /\ queries' = out.queries
            /\ response' = out.response
            /\ UNCHANGED <<categories, expenses, income, today, budgets, inflight>>

----------------------------------------------------------------------------
(* The application: every handler, on a ledger of two owners *)

Next ==
    \/ CreateCategory(Users, {"Food", "Rent"})
    \/ DeleteCategory(Users)
    \/ CreateExpense(Users, {D_2024_04_10}, {A_10_00}, {Unsplit})
    \/ CreateIncome(Users, {D_2024_04_10}, {A_30_00})
    \/ MonthlySummary({M_2024_04})
    \/ CategoryBreakdown({M_2024_04})
    \/ DailyTrend({M_2024_04})
    \/ GetInsights({M_2024_04})
    \/ GetTrends({<<"1">>})

Spec == Init /\ [][Next]_vars

----------------------------------------------------------------------------
(* The summary of a ledger of expenses and income *)

NextSummary ==
    \/ CreateCategory({"A"}, {"Food"})
    \/ CreateExpense({"A"}, {D_2024_03_31, D_2024_04_10}, {A_10_00, A_20_00},
                     {Unsplit, SplitFive})
    \/ CreateIncome({"A"}, {D_2024_03_31, D_2024_04_10}, {A_30_00})
    \/ MonthlySummary({M_2024_04, M_2024_03, None})

SpecSummary == Init /\ [][NextSummary]_vars

----------------------------------------------------------------------------
(* The breakdown of a ledger of two owners' categories *)

NextBreakdown ==
    \/ CreateCategory(Users, {"Food", "Rent"})
    \/ DeleteCategory(Users)
    \/ CreateExpense(Users, {D_2024_03_31, D_2024_04_10}, {A_10_00, A_20_00}, {Unsplit})
    \/ CategoryBreakdown({M_2024_04, M_2024_13})

SpecBreakdown == Init /\ [][NextBreakdown]_vars

----------------------------------------------------------------------------
(* The daily trend of a ledger of dated expenses *)

NextDaily ==
    \/ CreateCategory(Users, {"Food", ""})
    \/ CreateExpense(Users, {D_2024_03_31, D_2024_04_01, D_2024_04_10, D_2024_04_11},
                     {A_10_00, A_20_00, A_0}, {Unsplit})
    \/ DailyTrend({M_2024_04, M_2024_03})

SpecDaily == Init /\ [][NextDaily]_vars

----------------------------------------------------------------------------
(* The month token: validation and period resolution on an empty ledger *)

YearTexts ==
    {<<"0", "0", "0", "0">>, <<"0", "0", "0", "1">>, <<"1", "0", "0", "0">>,
     <<"2", "0", "0", "0">>, <<"2", "0", "2", "3">>, <<"2", "0", "2", "4">>,
     <<"2", "0", "2", "5">>, <<"2", "1", "0", "0">>, <<"9", "9", "9", "9">>}

MonthTexts ==
    {<<"0", "0">>, <<"0", "1">>, <<"0", "2">>, <<"0", "4">>, <<"1", "1">>,
     <<"1", "2">>, <<"1", "3">>}

\* tokens that are not four digits, a dash and two digits
MalformedTexts ==
    {<<"2", "0", "2", "4", "/", "0", "4">>, <<"2", "0", "2", "4", "-", "4">>,
     <<"2", "0", "2", "-", "0", "4">>, <<"2", "0", "2", "4", "-", "0", "4", "\n">>,
     <<"2", "0", "2", "4", "-", "0", "4", "0">>, <<"2", "0", "2", "4", "0", "4">>,
     <<"2", "0", "2", "4", "-", "0", "x">>, <<"2", "0", "2", "4", "-", "0", "4", "-", "0", "1">>,
     <<>>}

\* the values a request may carry as its "month" parameter
MonthTokens ==
    {y \o <<"-">> \o m : y \in YearTexts, m \in MonthTexts} \cup MalformedTexts \cup {None}

\* the values a request may carry as its "months" parameter
CountInputs == {None, <<"-", "1">>, <<"0">>, <<"1">>, <<"2">>, <<"x">>}

\* validate_month(month) on a token
ValidateMonth ==
    \E month \in MonthTokens :
        /\ request' = [month |-> month, op |-> "validate_month"]
        /\ queries' = <<>>
        /\ response' = validate_month(month)
        /\ UNCHANGED <<categories, expenses, income, today, budgets, inflight>>

\* get_month_date_range(month) on a token validate_month accepted, as the
\* handlers call it
GetMonthDateRange ==
    \E month \in MonthTokens :
        /\ validate_month(month).valid
        /\ request' = [month |-> month, op |-> "get_month_date_range"]
        /\ queries' = <<>>
        /\ response' = get_month_date_range(month)
        /\ UNCHANGED <<categories, expenses, income, today, budgets, inflight>>

NextMonth ==
    \/ ValidateMonth
    \/ GetMonthDateRange
    \/ MonthlySummary(MonthTokens)
    \/ CategoryBreakdown(MonthTokens)
    \/ DailyTrend(MonthTokens)
    \/ GetInsights(MonthTokens)
    \/ GetTrends(CountInputs)

SpecMonth == Init /\ [][NextMonth]_vars

----------------------------------------------------------------------------
(* The insights of one owner's expenses under several clocks *)

A_100_00 == <<"1", "0", "0", ".", "0", "0">>

A_0_13 == <<"0", ".", "1", "3">>

M_2024_02 == <<"2", "0", "2", "4", "-", "0", "2">>

M_2024_05 == <<"2", "0", "2", "4", "-", "0", "5">>

M_2023_12 == <<"2", "0", "2", "3", "-", "1", "2">>

M_2025_01 == <<"2", "0", "2", "5", "-", "0", "1">>

\* the server's clock, in, before and after the months asked for
Clocks ==
    {<<2024, 4, 10>>, <<2024, 4, 12>>, <<2024, 4, 30>>, <<2024, 5, 1>>,
     <<2024, 2, 29>>, <<2023, 12, 31>>}

\* a fresh deployment under any of the clocks
InitClock ==
    /\ categories = {}
    /\ expenses = {}
    /\ income = {}
    /\ today \in Clocks
    /\ budgets = {}
    /\ inflight = Idle
    /\ request = NoRequest
    /\ queries = <<>>
    /\ response = NoResponse

NextInsights ==
    \/ CreateCategory({"A"}, {"Food"})
    \/ CreateExpense({"A"}, {D_2024_04_10}, {A_100_00, A_0_13}, {Unsplit})
    \/ GetInsights({M_2024_04, M_2024_03, M_2024_05, M_2024_02, M_2023_12, M_2025_01})

SpecInsights == InitClock /\ [][NextInsights]_vars

----------------------------------------------------------------------------
(* The insights of a ledger of two months and two categories *)

NextComparison ==
    \/ CreateCategory({"A"}, {"Food", "Rent"})
    \/ DeleteCategory({"A"})
    \/ CreateExpense({"A"}, {D_2024_03_31, D_2024_04_10}, {A_10_00, A_30_00}, {Unsplit})
    \/ GetInsights({M_2024_04})

SpecComparison == Init /\ [][NextComparison]_vars

----------------------------------------------------------------------------
(* The trend walk, in a January and in an April *)

D_2023_12_31 == <<"2", "0", "2", "3", "-", "1", "2", "-", "3", "1">>

TrendClocks == {<<2024, 1, 31>>, <<2024, 4, 10>>}

TrendCounts == {None, <<"1">>, <<"2">>, <<"2", "5">>}

\* a fresh deployment in a January or in an April
InitTrends ==
    /\ categories = {}
    /\ expenses = {}
    /\ income = {}
    /\ today \in TrendClocks
    /\ budgets = {}
    /\ inflight = Idle
    /\ request = NoRequest
    /\ queries = <<>>
    /\ response = NoResponse

NextTrends ==
    \/ CreateCategory({"A"}, {"Food"})
    \/ CreateExpense({"A"}, {D_2023_12_31, D_2024_04_10}, {A_10_00}, {Unsplit})
    \/ CreateIncome({"A"}, {D_2023_12_31}, {A_30_00})
    \/ GetTrends(TrendCounts)

SpecTrends == InitTrends /\ [][NextTrends]_vars

----------------------------------------------------------------------------
(* The five reports of one owner's ledger, the store failing or not *)

NextReports ==
    \/ CreateCategory({"A"}, {"Food"})
    \/ CreateExpense({"A"}, {D_2024_04_10}, {A_10_00}, {Unsplit})
    \/ CreateIncome({"A"}, {D_2024_04_10}, {A_30_00})
    \/ MonthlySummary({M_2024_04, M_2024_13})
    \/ CategoryBreakdown({M_2024_04, M_2024_13})
    \/ DailyTrend({M_2024_04, M_2024_13})
    \/ GetInsights({M_2024_04, M_2024_13})
    \/ GetTrends({<<"2">>})

SpecReports == Init /\ [][NextReports]_vars

----------------------------------------------------------------------------
(* One owner's categories switched off and on, with expenses and budgets *)

NextHistory ==
    \/ CreateCategory({"A"}, {"Food", "Rent"})
    \/ DeleteCategory({"A"})
    \/ UpdateCategoryStatus({"A"}, {StatusOff, StatusOn, StatusAbsent, StatusText})
    \/ CreateExpense({"A"}, {D_2024_04_10}, {A_10_00}, {Unsplit})
    \/ SaveBudget({"A"}, {A_20_00})
    \/ MonthlySummary({M_2024_04})
    \/ CategoryBreakdown({M_2024_04})
    \/ DailyTrend({M_2024_04})
    \/ GetBudgetStatus({"A"}, {M_2024_04, M_2024_13})
    \/ GetExpenses({"A"}, {NoFilter})

SpecHistory == Init /\ [][NextHistory]_vars

----------------------------------------------------------------------------
(* Amounts: parsing and rendering on an empty ledger *)

SignTexts == {<<>>, <<"-">>, <<"+">>}

IntTexts == {<<>>, <<"0">>, <<"1">>, <<"1", "2">>}

FracTexts ==
    {<<>>, <<".">>, <<".", "5">>, <<".", "5", "0">>, <<".", "0", "0">>, <<".", "9", "9">>,
     <<".", "0", "0", "5">>, <<".", "0", "0", "4">>, <<".", "5", "0", "0">>,
     <<".", "9", "9", "5">>}

ExpTexts == {<<>>, <<"e", "1">>, <<"E", "-", "1">>}

\* texts that are no plain number: padded, special, too large for the
\* precision of the context, or not a number at all
OtherTexts ==
    {<<" ", "1", ".", "5", "0", " ">>, <<" ">>, <<"0", "1", ".", "5", "0">>,
     <<"1", "0", "0", "0", "e", "-", "3">>, <<"5", "e", "-", "3">>, <<"1", "e", "2", "6">>,
     <<"1", "2", "e", "2", "6">>, <<"-", "1", "e", "2", "6">>, <<"0", "e", "2", "6">>,
     <<"N", "a", "N">>, <<"-", "N", "a", "N">>, <<"s", "N", "a", "N">>,
     <<"I", "n", "f", "i", "n", "i", "t", "y">>, <<"-", "i", "n", "f">>,
     <<"a", "b", "c">>, <<"1", ".", "5", ".", "0">>, <<"1", ",", "5", "0">>, <<"1", "e">>,
     <<"T", "r", "u", "e">>}

\* str() of the values a request may carry as an amount, or None
AmountTexts ==
    {s \o i \o f \o x : s \in SignTexts, i \in IntTexts, f \in FracTexts, x \in ExpTexts}
        \cup OtherTexts \cup {None}

\* validate_amount(amount) on a value of a request
ValidateAmount ==
    \E amount \in AmountTexts :
        /\ request' = [amount |-> amount, op |-> "validate_amount"]
        /\ queries' = <<>>
        /\ response' = validate_amount(amount)
        /\ UNCHANGED <<categories, expenses, income, today, budgets, inflight>>

\* format_amount(amount) on a value
FormatAmount ==
    \E amount \in AmountTexts :
        /\ request' = [amount |-> amount, op |-> "format_amount"]
        /\ queries' = <<>>
        /\ response' = format_amount_value(amount)
        /\ UNCHANGED <<categories, expenses, income, today, budgets, inflight>>

\* format_amount(validate_amount(amount)[0]): the amount of a request as
\* the answer to it renders it; a refused amount is None
FormatValidated ==
    \E amount \in AmountTexts :
        LET validated == validate_amount(amount)
        IN  /\ request' = [amount |-> amount, op |-> "format_validated"]
            /\ queries' = <<>>
            /\ response' = IF validated.error = "None"
                           THEN format_amount(validated.amount, 100)
                           ELSE format_amount_none
            /\ UNCHANGED <<categories, expenses, income, today, budgets, inflight>>

NextAmount ==
    \/ ValidateAmount
    \/ FormatAmount
    \/ FormatValidated

SpecAmount == Init /\ [][NextAmount]_vars

----------------------------------------------------------------------------
(* Category names: two owners, requests interleaved between the check of a
   name and the statement that stores it *)

NextNames ==
    \/ CreateCategory(Users, {"Food", "Shopping"})
    \/ CreateCategoryCheck(Users, {"Food", "Shopping", ""})
    \/ CreateCategoryInsert
    \/ UpdateCategory(Users, {"Food", "Shopping"})
    \/ UpdateCategoryCheck(Users, {"Food", "Shopping", ""})
    \/ UpdateCategoryRename
    \/ SeedCategories(Users)

SpecNames == Init /\ [][NextNames]_vars

----------------------------------------------------------------------------
(* Two owners' expenses: written, rewritten, removed and listed *)

UpdateBodies ==
    {Body({}, None, None, 0, FALSE, None),
     Body({"amount"}, None, A_20_00, 0, FALSE, None),
     Body({"amount"}, None, A_0, 0, FALSE, None)}

NextOwnership ==
    \/ CreateCategory({"A"}, {"Food"})
    \/ CreateCategory({"B"}, {"Rent"})
    \/ CreateExpense(Users, {D_2024_04_10}, {A_10_00}, {Unsplit})
    \/ UpdateExpense(Users, UpdateBodies)
    \/ DeleteExpense(Users)
    \/ GetExpenses(Users, {NoFilter})

SpecOwnership == Init /\ [][NextOwnership]_vars

----------------------------------------------------------------------------
(* One owner's expenses split, unsplit and summed *)

SplitBodies ==
    {Body({"is_split"}, None, None, 0, FALSE, None),
     Body({"is_split"}, None, None, 0, TRUE, None),
     Body({"split_amount"}, None, None, 0, FALSE, A_5_00),
     Body({"is_split", "split_amount"}, None, None, 0, TRUE, A_5_00)}

NextSplit ==
    \/ CreateCategory({"A"}, {"Food"})
    \/ CreateExpense({"A"}, {D_2024_04_10}, {A_10_00}, {Unsplit, SplitFive})
    \/ UpdateExpense({"A"}, SplitBodies)
    \/ MonthlySummary({M_2024_04})

SpecSplit == Init /\ [][NextSplit]_vars

----------------------------------------------------------------------------
(* A breakdown read while one owner's expenses are written *)

NextSnapshot ==
    \/ CreateCategory({"A"}, {"Food"})
    \/ CreateExpense({"A"}, {D_2024_04_10}, {A_10_00}, {Unsplit})
    \/ UpdateExpense({"A"}, {Body({"amount"}, None, A_20_00, 0, FALSE, None)})
    \/ DeleteExpense({"A"})
    \/ CategoryBreakdownTotal({M_2024_04})
    \/ CategoryBreakdownRows

SpecSnapshot == Init /\ [][NextSnapshot]_vars

----------------------------------------------------------------------------
(* Properties *)

\* the cents a rendered amount ("12.34", "-0.50") denotes
MoneyCents(text) ==
    LET digits == IF text[1] = "-" THEN Tail(text) ELSE text
        dot == CHOOSE i \in 1..Len(digits) : digits[i] = "."
        cents == 100 * ParseInt(SubSeq(digits, 1, dot - 1))
                 + ParseInt(SubSeq(digits, dot + 1, Len(digits)))
    IN  IF text[1] = "-" THEN -cents ELSE cents

ZeroText == <<"0", ".", "0", "0">>

\* year and month of a token of the form YYYY-MM
TokenYear(token) == ParseInt(SubSeq(token, 1, 4))

TokenMonth(token) == ParseInt(SubSeq(token, 6, 7))

\* a token of the exact form YYYY-MM, month 01..12, of a month of the calendar
WellFormedMonth(token) ==
    /\ token # None
    /\ Len(token) = 7
    /\ \A i \in {1, 2, 3, 4, 6, 7} : IsDigit(token[i])
    /\ token[5] = "-"
    /\ TokenMonth(token) \in 1..12
    /\ TokenYear(token) \in MINYEAR..MAXYEAR

\* the last day of a month by the calendar's rule
LastDay(year, month) ==
    IF month \in {4, 6, 9, 11} THEN 30
    ELSE IF month # 2 THEN 31
    ELSE IF year % 4 = 0 /\ (year % 100 # 0 \/ year % 400 = 0) THEN 29
    ELSE 28

\* the rows dated in a month
RowsInMonth(rows, year, month) == {r \in rows : r.date[1] = year /\ r.date[2] = month}

\* the rows one owner holds
Own(rows, owner) == {r \in rows : r.user_id = owner}

\* the sum of a money field over the first k entries of a list
RECURSIVE SumCents(_, _, _)
SumCents(list, field, k) ==
    IF k = 0 THEN 0 ELSE SumCents(list, field, k - 1) + MoneyCents(list[k][field])

MonthReports == {"monthly_summary", "category_breakdown", "daily_trend", "get_insights"}

\* the store failed: the answer handle_db_error gives for it
StoreFailed == \E k \in 1..Len(queries) : "raised" \in DOMAIN queries[k]

\* C1: a report is, for every owner it may be answered to, the report of
\* the ledger restricted to that owner's rows: rows of other owners do not
\* influence it (the handlers read no identity, so one answer goes to all)
C1_OwnerIsolation ==
    \A u \in Users :
        /\ request.op = "monthly_summary" /\ response.status = 200
            => Outcome(response, queries)
               = monthly_summary(Own(expenses, u), Own(income, u), request.month, NoFault)
        /\ request.op = "category_breakdown" /\ response.status = 200
            => Outcome(response, queries)
               \in category_breakdown(Own(categories, u), Own(expenses, u), request.month, NoFault)
        /\ request.op = "daily_trend" /\ response.status = 200
            => Outcome(response, queries) = daily_trend(Own(expenses, u), request.month, NoFault)
        /\ request.op = "get_insights" /\ response.status = 200
            => Outcome(response, queries)
               \in get_insights(Own(categories, u), Own(expenses, u), today, request.month, NoFault)
        /\ request.op = "get_trends" /\ response.status = 200
            => Outcome(response, queries)
               \in get_trends(Own(expenses, u), Own(income, u), today, request.months, NoFault)

\* C2: validate_month accepts exactly the tokens of the form YYYY-MM that
\* name a month of the calendar, and a month report answers a rejected token
\* with a 400 invalid-month error and an accepted one with a success record
\* unless the store failed
C2_MonthValidation ==
    /\ request.op = "validate_month" => (response.valid <=> WellFormedMonth(request.month))
    /\ request.op \in MonthReports =>
        IF WellFormedMonth(request.month)
        THEN response.status = 200 \/ StoreFailed
        ELSE /\ response.status = 400
             /\ response.body.error \in {ErrMonthRequired, ErrMonthFormat, ErrMonthValue}

\* C3: for a valid token Y-M get_month_date_range returns the first and the
\* last calendar day of Y-M as YYYY-MM-DD texts, and a date lies in the month
\* exactly when it lies between the two
C3_PeriodResolution ==
    request.op = "get_month_date_range" =>
        LET year == TokenYear(request.month)
            month == TokenMonth(request.month)
            first == <<year, month, 1>>
            last == <<year, month, LastDay(year, month)>>
            probes == {first, last, <<year, month, 15>>, <<year - 1, month, 15>>,
                       <<year + 1, month, 15>>,
                       IF month = 1 THEN <<year - 1, 12, 31>>
                       ELSE <<year, month - 1, LastDay(year, month - 1)>>,
                       IF month = 12 THEN <<year + 1, 1, 1>> ELSE <<year, month + 1, 1>>}
        IN  /\ ~response.raised
            /\ response.start_date = IsoDate(first)
            /\ response.end_date = IsoDate(last)
            /\ \A d \in probes :
                (d[1] = year /\ d[2] = month)
                <=> (/\ DateLeq(ParseIsoDate(response.start_date), d)
                     /\ DateLeq(d, ParseIsoDate(response.end_date)))

\* C4: for an accepted token Y-M get_insights queries the previous month,
\* Y-(M-1) or (Y-1)-12 when M = 1, over its first..last day, and each step of
\* the get_trends walk goes one month back by the same rule
C4_PreviousMonth ==
    /\ request.op = "get_insights" /\ validate_month(request.month).valid /\ ~StoreFailed
        => LET year == TokenYear(request.month)
               month == TokenMonth(request.month)
               py == IF month = 1 THEN year - 1 ELSE year
               pm == IF month = 1 THEN 12 ELSE month - 1
           IN  /\ Len(queries) >= 2
               /\ queries[2].params
                  = <<IsoDate(<<py, pm, 1>>), IsoDate(<<py, pm, LastDay(py, pm)>>)>>
    /\ request.op = "get_trends" /\ response.status = 200
        => \A i \in 1..(Len(response.body) - 1) :
            LET year == TokenYear(response.body[i + 1].month)
                month == TokenMonth(response.body[i + 1].month)
            IN  response.body[i].month
                = IF month = 1 THEN Pad4(year - 1) \o <<"-", "1", "2">>
                  ELSE Pad4(year) \o <<"-">> \o Pad2(month - 1)

\* C5: a monthly summary reports net_spending = total_expense - total_owed,
\* net_balance = total_income - net_spending and savings_rate = net_balance /
\* total_income * 100 (0 without income), the totals being the sums of amount,
\* split_amount and income amount over the rows dated in the month
C5_SummaryDerivedValues ==
    request.op = "monthly_summary" /\ response.status = 200 =>
        LET year == TokenYear(request.month)
            month == TokenMonth(request.month)
            total_expense == SumField(RowsInMonth(expenses, year, month), "amount")
            total_owed == SumField(RowsInMonth(expenses, year, month), "split_amount")
            total_income == SumField(RowsInMonth(income, year, month), "amount")
            balance == total_income - (total_expense - total_owed)
            rate == MoneyCents(response.body.savings_rate)
            gap == rate * total_income - balance * 10000
        IN  /\ MoneyCents(response.body.total_expense) = total_expense
            /\ MoneyCents(response.body.total_owed) = total_owed
            /\ MoneyCents(response.body.total_income) = total_income
            /\ MoneyCents(response.body.net_spending) = total_expense - total_owed
            /\ MoneyCents(response.body.net_balance) = balance
            /\ IF total_income > 0
               THEN 2 * (IF gap < 0 THEN -gap ELSE gap) <= total_income
               ELSE response.body.savings_rate = ZeroText

\* the summary of expenses 10.00 and 20.00, 5.00 of them owed, and income
\* 30.00
C5_Witness ==
    /\ request.op = "monthly_summary"
    /\ response.status = 200
    /\ response.body.total_expense = <<"3", "0", ".", "0", "0">>
    /\ response.body.total_owed = <<"5", ".", "0", "0">>
    /\ response.body.total_income = <<"3", "0", ".", "0", "0">>
    /\ response.body.net_spending = <<"2", "5", ".", "0", "0">>
    /\ response.body.net_balance = <<"5", ".", "0", "0">>
    /\ response.body.savings_rate = <<"1", "6", ".", "6", "7">>

\* C6: for a valid month without expense and income in the ledger, the
\* summary, the breakdown and the daily trend answer a success record whose
\* counts are 0 and whose amounts are "0.00" (the trend with no rows), never
\* an error of their own
C6_ZeroRangeSafety ==
    /\ request.op \in {"monthly_summary", "category_breakdown", "daily_trend"}
    /\ validate_month(request.month).valid
    /\ RowsInMonth(expenses, TokenYear(request.month), TokenMonth(request.month)) = {}
    /\ RowsInMonth(income, TokenYear(request.month), TokenMonth(request.month)) = {}
    /\ ~StoreFailed
    => /\ response.status = 200
       /\ request.op = "monthly_summary" =>
            /\ response.body.expense_count = 0
            /\ response.body.income_count = 0
            /\ \A field \in {"total_expense", "total_owed", "net_spending", "average_expense",
                             "min_expense", "max_expense", "total_income", "net_balance",
                             "savings_rate"} : response.body[field] = ZeroText
       /\ request.op = "category_breakdown" =>
            /\ response.body.total_amount = ZeroText
            /\ \A i \in 1..Len(response.body.categories) :
                /\ response.body.categories[i].transaction_count = 0
                /\ response.body.categories[i].total_amount = ZeroText
                /\ response.body.categories[i].percentage = ZeroText
       /\ request.op = "daily_trend" =>
            /\ response.body.daily_data = <<>>
            /\ response.body.days_with_expenses = 0
            /\ response.body.total_amount = ZeroText

\* C7: the categories list of a breakdown holds exactly one entry for each
\* active category of the owner, none for an inactive one, and each entry
\* carries the count and the sum of its category's expenses dated in the month
C7_BreakdownMembership ==
    request.op = "category_breakdown" /\ response.status = 200 =>
        \A u \in Users :
            LET list == response.body.categories
                active == {c \in Own(categories, u) : c.is_active}
                dated == RowsInMonth(expenses, TokenYear(request.month),
                                     TokenMonth(request.month))
            IN  /\ Len(list) = Cardinality(active)
                /\ {list[i].category_id : i \in 1..Len(list)} = {c.id : c \in active}
                /\ \A i \in 1..Len(list) :
                    LET spent == {e \in dated : e.category_id = list[i].category_id}
                    IN  /\ list[i].transaction_count = Cardinality(spent)
                        /\ MoneyCents(list[i].total_amount) = SumField(spent, "amount")

C9_BreakdownOrder ==
    request.op = "category_breakdown" /\ response.status = 200 =>
        \A i \in 1..(Len(response.body.categories) - 1) :
            MoneyCents(response.body.categories[i].total_amount)
            >= MoneyCents(response.body.categories[i + 1].total_amount)

\* a breakdown whose larger total belongs to the category created last
C9_Witness ==
    /\ request.op = "category_breakdown"
    /\ response.status = 200
    /\ Len(response.body.categories) = 2
    /\ response.body.categories[1].category_id = 2
    /\ response.body.categories[1].total_amount = <<"2", "0", ".", "0", "0">>
    /\ response.body.categories[2].total_amount = <<"1", "0", ".", "0", "0">>

\* C10: the k-th row of a daily trend carries as running_total the sum of
\* daily_total over rows 1..k; the last running_total is the response's
\* total_amount, the exact cent sum of the expenses dated in the month
C10_RunningTotal ==
    request.op = "daily_trend" /\ response.status = 200 =>
        LET rows == response.body.daily_data
            dated == RowsInMonth(expenses, TokenYear(request.month), TokenMonth(request.month))
        IN  /\ \A k \in 1..Len(rows) :
                MoneyCents(rows[k].running_total) = SumCents(rows, "daily_total", k)
            /\ Len(rows) > 0 =>
                MoneyCents(rows[Len(rows)].running_total)
                = MoneyCents(response.body.total_amount)
            /\ MoneyCents(response.body.total_amount) = SumField(dated, "amount")

\* a trend of two days, 10.00 on the first and 20.00 on the second
C10_Witness ==
    /\ request.op = "daily_trend"
    /\ response.status = 200
    /\ Len(response.body.daily_data) = 2
    /\ response.body.daily_data[1].running_total = <<"1", "0", ".", "0", "0">>
    /\ response.body.daily_data[2].daily_total = <<"2", "0", ".", "0", "0">>
    /\ response.body.daily_data[2].running_total = <<"3", "0", ".", "0", "0">>

\* C11: daily_data holds exactly one row per date of the month on which an
\* expense exists and none for another date, in strictly ascending date
\* order; each row carries the count and the sum of its date's expenses, and
\* days_with_expenses is the number of rows
C11_DailyTrendRows ==
    request.op = "daily_trend" /\ response.status = 200 =>
        LET rows == response.body.daily_data
            dated == RowsInMonth(expenses, TokenYear(request.month), TokenMonth(request.month))
        IN  /\ {ParseIsoDate(rows[k].date) : k \in 1..Len(rows)} = {e.date : e \in dated}
            /\ Len(rows) = Cardinality({e.date : e \in dated})
            /\ \A k \in 1..(Len(rows) - 1) :
                /\ rows[k].date # rows[k + 1].date
                /\ DateLeq(ParseIsoDate(rows[k].date), ParseIsoDate(rows[k + 1].date))
            /\ \A k \in 1..Len(rows) :
                LET spent == {e \in dated : e.date = ParseIsoDate(rows[k].date)}
                IN  /\ rows[k].transaction_count = Cardinality(spent)
                    /\ MoneyCents(rows[k].daily_total) = SumField(spent, "amount")
            /\ response.body.days_with_expenses = Len(rows)

\* a trend of April with rows for the 1st and the 10th only
C11_Witness ==
    /\ request.op = "daily_trend"
    /\ response.status = 200
    /\ response.body.days_with_expenses = 2
    /\ response.body.daily_data[1].date = D_2024_04_01
    /\ response.body.daily_data[2].date = D_2024_04_10
    /\ response.body.daily_data[1].transaction_count = 1

\* C12: get_insights reports days_passed = today.day when today lies in the
\* target month, days_in_month when today is after the month and 1 when the
\* month lies in the future; days_in_month is the calendar length of the month
C12_DaysPassed ==
    request.op = "get_insights" /\ response.status = 200 =>
        LET year == TokenYear(request.month)
            month == TokenMonth(request.month)
        IN  /\ response.body.days_in_month = LastDay(year, month)
            /\ response.body.days_passed
               = IF today[1] = year /\ today[2] = month THEN today[3]
                 ELSE IF today[1] > year \/ (today[1] = year /\ today[2] > month)
                 THEN LastDay(year, month)
                 ELSE 1

\* insights of April 2024 asked on its 12th day, of the elapsed February and
\* of the coming May
C12_Witness ==
    /\ request.op = "get_insights"
    /\ response.status = 200
    /\ today = <<2024, 4, 12>>
    /\ \/ request.month = M_2024_04 /\ response.body.days_passed = 12
       \/ request.month = M_2024_02 /\ response.body.days_passed = 29
       \/ request.month = M_2024_05 /\ response.body.days_passed = 1

\* C13: get_insights reports daily_average = current_total / days_passed
\* and projected_total = daily_average * days_in_month, each rounded to two
\* decimals in its rendering only, current_total being the sum of the
\* expenses dated in the target month
C13_Projection ==
    request.op = "get_insights" /\ response.status = 200 =>
        LET current_total == SumField(RowsInMonth(expenses, TokenYear(request.month),
                                                  TokenMonth(request.month)), "amount")
            passed == response.body.days_passed
            average_gap == MoneyCents(response.body.daily_average) * passed - current_total
            projected_gap == MoneyCents(response.body.projected_total) * passed
                             - current_total * response.body.days_in_month
        IN  /\ 2 * (IF average_gap < 0 THEN -average_gap ELSE average_gap) <= passed
            /\ 2 * (IF projected_gap < 0 THEN -projected_gap ELSE projected_gap) <= passed

\* 100.00 spent by day 10 of a 30-day month: 10.00 a day, 300.00 projected
C13_Witness ==
    /\ request.op = "get_insights"
    /\ response.status = 200
    /\ response.body.days_passed = 10
    /\ response.body.days_in_month = 30
    /\ response.body.daily_average = <<"1", "0", ".", "0", "0">>
    /\ response.body.projected_total = <<"3", "0", "0", ".", "0", "0">>

\* C14: category_comparisons holds exactly one entry for each active category
\* with a nonzero expense total in the target month or the month before it
\* and no other entry; current and previous are the category's sums of the
\* two months, diff = current - previous, and percent = diff / previous * 100
\* when previous > 0, else 0
C14_CategoryComparisons ==
    request.op = "get_insights" /\ response.status = 200 =>
        LET year == TokenYear(request.month)
            month == TokenMonth(request.month)
            before == IF month = 1 THEN <<year - 1, 12>> ELSE <<year, month - 1>>
            spent(c, y, m) ==
                SumField(RowsInMonth({e \in expenses : e.category_id = c.id}, y, m), "amount")
            compared == {c \in categories :
                             /\ c.is_active
                             /\ \/ spent(c, year, month) # 0
                                \/ spent(c, before[1], before[2]) # 0}
            list == response.body.category_comparisons
        IN  /\ Len(list) = Cardinality(compared)
            /\ {list[k].name : k \in 1..Len(list)} = {c.name : c \in compared}
            /\ \A k \in 1..Len(list) : \A c \in compared :
                   c.name = list[k].name =>
                       LET current == spent(c, year, month)
                           previous == spent(c, before[1], before[2])
                           gap == list[k].percent * previous - (current - previous) * 1000
                       IN  /\ MoneyCents(list[k].current) = current
                           /\ MoneyCents(list[k].previous) = previous
                           /\ MoneyCents(list[k].diff) = current - previous
                           /\ IF previous > 0
                              THEN 2 * (IF gap < 0 THEN -gap ELSE gap) <= previous
                              ELSE list[k].percent = 0

\* a category with 30.00 in March and nothing in April is listed with -100.0
\* percent while a deactivated one, with an April expense, is not listed
C14_Witness ==
    /\ request.op = "get_insights"
    /\ response.status = 200
    /\ \E c \in categories : ~c.is_active /\ \E e \in expenses :
           e.category_id = c.id /\ e.date = <<2024, 4, 10>>
    /\ Len(response.body.category_comparisons) = 1
    /\ response.body.category_comparisons[1].previous = <<"3", "0", ".", "0", "0">>
    /\ response.body.category_comparisons[1].diff = <<"-", "3", "0", ".", "0", "0">>
    /\ response.body.category_comparisons[1].percent = -1000

\* the months count a trends request asks for: the default 6 when the
\* parameter is absent, else the decimal number it carries
RequestedCount ==
    IF request.months = None THEN 6 ELSE ParseInt(request.months)

\* C15: for a months count N >= 1 (6 when the parameter is absent)
\* get_trends returns exactly N entries, the N consecutive calendar months
\* ending with the current month, oldest first, the year rolling at January
C15_TrendMonths ==
    request.op = "get_trends" /\ response.status = 200 /\ RequestedCount >= 1 =>
        LET list == response.body
        IN  /\ Len(list) = RequestedCount
            /\ list[Len(list)].month = IsoMonth(today)
            /\ \A k \in 1..(Len(list) - 1) :
                   LET year == TokenYear(list[k].month)
                       month == TokenMonth(list[k].month)
                   IN  list[k + 1].month
                       = IF month = 12 THEN IsoMonth(<<year + 1, 1, 1>>)
                         ELSE IsoMonth(<<year, month + 1, 1>>)

\* the default six months asked in April 2024 run from November 2023, and
\* two months asked in January 2024 are December 2023 and January 2024
C15_Witness ==
    /\ request.op = "get_trends"
    /\ response.status = 200
    /\ \/ /\ request.months = None
          /\ today = <<2024, 4, 10>>
          /\ Len(response.body) = 6
          /\ response.body[1].month = <<"2", "0", "2", "3", "-", "1", "1">>
          /\ response.body[6].month = M_2024_04
       \/ /\ request.months = <<"2">>
          /\ today = <<2024, 1, 31>>
          /\ response.body[1].month = M_2023_12
          /\ response.body[1].income = <<"3", "0", ".", "0", "0">>

\* C16: whatever the months parameter carries, get_trends visits at most 24
\* months and issues at most the two queries of each of them
C16_TrendsBound ==
    request.op = "get_trends" =>
        /\ Len(queries) <= 2 * 24
        /\ response.status = 200 => Len(response.body) <= 24

Reports == MonthReports \cup {"get_trends"}

\* C17: when a ledger query of a reporting operation fails, the caller
\* receives the failure the store raised, not a replaced or generic one
C17_FailurePropagates ==
    request.op \in Reports =>
        \A k \in 1..Len(queries) :
            "raised" \in DOMAIN queries[k] =>
                response.body.error = queries[k].raised.message

\* the statements a reporting operation issues when none of them fails
CompleteQueries ==
    IF request.op = "daily_trend" THEN 1
    ELSE IF request.op = "get_insights" THEN 3
    ELSE IF request.op = "get_trends" THEN 2 * RequestedCount
    ELSE 2

\* C18: a reporting operation answers either with its complete success
\* record or with an error that carries none of the values computed before
\* the failure; get_trends failing at a later month returns no entry of the
\* months before it
C18_NoPartialResults ==
    request.op \in Reports =>
        IF response.status = 200
        THEN /\ ~StoreFailed
             /\ Len(queries) = CompleteQueries
             /\ request.op = "get_trends" => Len(response.body) = RequestedCount
        ELSE DOMAIN response.body = {"error"}

\* get_trends over two months fails at the first query of its second month:
\* the answer holds the error and nothing of the first month
C18_Witness ==
    /\ request.op = "get_trends"
    /\ Len(queries) = 3
    /\ "raised" \in DOMAIN queries[3]
    /\ income # {}
    /\ response.status = 500
    /\ DOMAIN response.body = {"error"}

\* C19: a reporting operation, succeeding or failing, leaves the expenses,
\* the income and the categories as they were
C19_ReportsReadOnly ==
    [][request'.op \in Reports => UNCHANGED <<categories, expenses, income>>]_vars

\* reports answered over a ledger that holds a category, an expense and an
\* income: a daily trend whose query failed, or a complete summary
C19_Witness ==
    /\ categories # {} /\ expenses # {} /\ income # {}
    /\ \/ request.op = "daily_trend" /\ StoreFailed
       \/ request.op = "monthly_summary" /\ response.status = 200

\* C20: a reporting operation called twice with the same month token (or
\* months count) and the same today against an unchanged ledger gives the
\* same output both times, the order of list entries included
C20_Repeatable ==
    [][/\ request.op \in Reports
       /\ request' = request
       /\ response.status = 200
       /\ response'.status = 200
       /\ UNCHANGED <<categories, expenses, income, today, budgets, inflight>>
       => response' = response]_vars

----------------------------------------------------------------------------
(* Amounts *)

\* the value the text of an amount denotes is one the parse has to refuse:
\* absent, not a finite number, zero or negative, or written with more than
\* 2 fractional digits
Refused(amount) ==
    \/ amount = None
    \/ Len(Strip(amount)) = 0
    \/ ParseDecimal(amount).invalid
    \/ ~is_finite(ParseDecimal(amount))
    \/ ParseDecimal(amount).negative
    \/ ParseDecimal(amount).coefficient = 0
    \/ ParseDecimal(amount).exponent < -2

\* C21: validate_amount returns an error and no amount when the value is
\* absent, not a finite number, zero or negative, or carries more than 2
\* fractional digits; for every other input it returns no error and the
\* same value in cents, neither rounded nor truncated
C21_AmountParsing ==
    request.op = "validate_amount" =>
        IF Refused(request.amount)
        THEN response.error # "None" /\ response.amount = 0
        ELSE /\ response.error = "None"
             /\ response.amount = ParseDecimal(request.amount).coefficient
                                  * Pow10(ParseDecimal(request.amount).exponent + 2)

\* the text ends in a point and exactly 2 digits
TwoPlaces(s) ==
    /\ s # None
    /\ Len(s) >= 3
    /\ s[Len(s) - 2] = "."
    /\ IsDigit(s[Len(s) - 1]) /\ IsDigit(s[Len(s)])

\* digits, a point and two digits: no sign, no white space, no exponent, and
\* no leading zero but a single one before the point
Canonical(s) ==
    /\ TwoPlaces(s)
    /\ Len(s) >= 4
    /\ \A i \in 1..(Len(s) - 3) : IsDigit(s[i])
    /\ s[1] = "0" => Len(s) = 4

\* C22 as stated: for every valid positive amount string with exactly 2
\* fractional digits, format_amount(validate_amount(s)) equals s
C22_RoundTripAnyText ==
    (/\ request.op = "format_validated"
     /\ TwoPlaces(request.amount)
     /\ validate_amount(request.amount).error = "None")
        => response = request.amount

\* C22 (amended): for every valid positive amount string with exactly 2
\* fractional digits that is written canonically (digits, a point and two
\* digits, with no sign, no white space, no exponent and no superfluous
\* leading zero), format_amount(validate_amount(s)) equals s
C22_RoundTrip ==
    (/\ request.op = "format_validated"
     /\ Canonical(request.amount)
     /\ validate_amount(request.amount).error = "None")
        => response = request.amount

C22_Witness ==
    /\ request.op = "format_validated"
    /\ request.amount = <<"1", "2", ".", "5", "0">>
    /\ Canonical(request.amount)
    /\ response = <<"1", "2", ".", "5", "0">>

\* the magnitude of the decimal is below half a cent
BelowHalfCent(d) ==
    \/ d.coefficient = 0
    \/ d.exponent < -2 /\ 2 * 100 * d.coefficient < Pow10(-d.exponent)

\* cents is the magnitude of the decimal in cents, rounded half up:
\* cents - 1/2 <= 100 * |d| < cents + 1/2
HalfUp(d, cents) ==
    IF d.coefficient = 0 THEN cents = 0
    ELSE IF d.exponent >= -2 THEN cents = d.coefficient * Pow10(d.exponent + 2)
    ELSE /\ 2 * cents * Pow10(-d.exponent) <= 2 * 100 * d.coefficient + Pow10(-d.exponent)
         /\ 2 * 100 * d.coefficient + Pow10(-d.exponent) < 2 * (cents + 1) * Pow10(-d.exponent)

\* C23: format_amount renders every finite decimal value with exactly 2
\* fractional digits, rounded half up in magnitude (0.005 renders "0.01",
\* 0.004 renders "0.00"), and renders an absent value as "0.00"
C23_Rendering ==
    request.op = "format_amount" =>
        IF request.amount = None THEN response = ZeroText
        ELSE LET d == ParseDecimal(request.amount)
                 shown == IF response[1] = "-" THEN -MoneyCents(response)
                          ELSE MoneyCents(response)
             IN  (~d.invalid /\ is_finite(d)) =>
                     /\ TwoPlaces(response)
                     /\ shown = 0 => BelowHalfCent(d)
                     /\ HalfUp(d, shown)
                     /\ shown # 0 => (response[1] = "-" <=> d.negative)

----------------------------------------------------------------------------
(* History of deactivated categories *)

\* the categories that are not active
Inactive == {c.id : c \in {x \in categories : ~x.is_active}}

\* the expenses dated in the month of the request
Dated == RowsInMonth(expenses, TokenYear(request.month), TokenMonth(request.month))

\* what the views show of the stored rows: the breakdown and the budget
\* status name no inactive category, and the totals of the summary, of the
\* breakdown and of the trend, and the listing, cover every stored expense,
\* those of inactive categories included
HistoryShown ==
    /\ request.op = "category_breakdown" /\ response.status = 200 =>
        /\ \A i \in 1..Len(response.body.categories) :
                response.body.categories[i].category_id \notin Inactive
        /\ MoneyCents(response.body.total_amount) = SumField(Dated, "amount")
    /\ request.op = "get_budget_status" /\ response.status = 200 =>
        \A i \in 1..Len(response.body) : response.body[i].category_id \notin Inactive
    /\ request.op = "monthly_summary" /\ response.status = 200 =>
        /\ MoneyCents(response.body.total_expense) = SumField(Dated, "amount")
        /\ response.body.expense_count = Cardinality(Dated)
    /\ request.op = "daily_trend" /\ response.status = 200 =>
        /\ MoneyCents(response.body.total_amount) = SumField(Dated, "amount")
        /\ SumCents(response.body.daily_data, "daily_total", Len(response.body.daily_data))
               = SumField(Dated, "amount")
    /\ request.op = "get_expenses" /\ response.status = 200 =>
        /\ Len(response.body) = Cardinality(Own(expenses, request.caller))
        /\ {response.body[i].id : i \in 1..Len(response.body)}
               = {e.id : e \in Own(expenses, request.caller)}

\* a request that changes the status of a category leaves the expenses alone
DeactivationKeepsExpenses ==
    request'.op \in {"delete_category", "update_category_status"} => expenses' = expenses

\* C24: after a category is deactivated (delete_category, or
\* update_category_status with is_active false) category_breakdown and the
\* budget status omit it, while every expense that references it remains
\* stored and still counts in the totals of monthly_summary, in the grand
\* total of the breakdown, in daily_trend and in the expense listing
C24_DeactivationKeepsHistory == []HistoryShown /\ [][DeactivationKeepsExpenses]_vars

\* a breakdown that omits the only category, inactive, and still totals
\* the expense that references it
C24_Witness ==
    /\ request.op = "category_breakdown"
    /\ response.status = 200
    /\ \E e \in expenses : e.category_id \in Inactive
    /\ Len(response.body.categories) = 0
    /\ response.body.total_amount = <<"1", "0", ".", "0", "0">>

----------------------------------------------------------------------------
(* Expense ownership *)

\* the step answers an update or a delete whose id is that of an expense
\* the caller does not own
ForeignWrite ==
    /\ request'.op \in {"update_expense", "delete_expense"}
    /\ \E e \in expenses : e.id = request'.expense_id /\ e.user_id # request'.caller

\* a write of one owner leaves the expenses of every other owner, and the
\* listing every other owner is given, as they were
OthersUntouched ==
    request'.op \in {"create_expense", "update_expense", "delete_expense"} =>
        \A v \in Users \ {request'.caller} :
            /\ Own(expenses', v) = Own(expenses, v)
            /\ get_expenses(categories', expenses', v, NoFilter, NoFault).response
                   = get_expenses(categories, expenses, v, NoFilter, NoFault).response

\* C26 as stated: update_expense and delete_expense called with the id of
\* another owner's expense answer 404 and leave the expense unchanged, and
\* no expense operation of one owner changes another owner's expenses or
\* what get_expenses returns to that owner
C26_ForeignWriteAlways404 ==
    [][/\ ForeignWrite => response'.status = 404 /\ expenses' = expenses
       /\ OthersUntouched]_vars

\* C26: update_expense and delete_expense called with the id of another
\* owner's expense leave the expense unchanged and answer 404, except that
\* update_expense answers 400 to an empty body before it looks the expense
\* up and that a failing statement is answered with the store's error; no
\* expense operation of one owner changes another owner's expenses or what
\* get_expenses returns to that owner
C26_ExpenseOwnership ==
    [][/\ ForeignWrite =>
            /\ expenses' = expenses
            /\ response'.status =
                   IF request'.op = "update_expense" /\ request'.keys = {} THEN 400
                   ELSE IF StoreFailed' THEN 500
                   ELSE 404
       /\ OthersUntouched]_vars

\* A's update, with a new amount, of the expense B owns is answered 404 and
\* the expense holds B's amount
C26_Witness ==
    /\ request.op = "update_expense"
    /\ request.caller = "A"
    /\ request.keys = {"amount"}
    /\ response.status = 404
    /\ \E e \in expenses :
           e.id = request.expense_id /\ e.user_id = "B" /\ e.amount = 1000

----------------------------------------------------------------------------
(* Validation before queries *)

\* C27: in monthly_summary, category_breakdown, daily_trend and
\* get_insights a request with an invalid month token is rejected before
\* any statement is issued, and no request that issued a statement is
\* answered with an invalid-month error
C27_ValidationPrecedesQueries ==
    request.op \in MonthReports =>
        /\ ~validate_month(request.month).valid =>
               /\ response = error_response(validate_month(request.month).error, 400)
               /\ queries = <<>>
        /\ queries # <<>> =>
               ~(/\ response.status = 400
                 /\ response.body.error \in {ErrMonthRequired, ErrMonthFormat, ErrMonthValue})

\* get_insights rejects a token of month 13 and has issued no statement
C27_Witness ==
    /\ request.op = "get_insights"
    /\ request.month = M_2024_13
    /\ response.status = 400
    /\ queries = <<>>

----------------------------------------------------------------------------
(* Split amounts *)

\* C28: an expense whose is_split flag is false contributes 0 to the
\* total_owed of monthly_summary and its full amount to net_spending:
\* total_owed is the sum of split_amount over the month's expenses whose
\* flag is set, and net_spending is total_expense less that sum
C28_SplitCountsOnlyWhenFlagged ==
    request.op = "monthly_summary" /\ response.status = 200 =>
        LET dated == RowsInMonth(expenses, TokenYear(request.month),
                                 TokenMonth(request.month))
            owed == SumField({e \in dated : e.is_split}, "split_amount")
        IN  /\ MoneyCents(response.body.total_owed) = owed
            /\ MoneyCents(response.body.net_spending) = SumField(dated, "amount") - owed

----------------------------------------------------------------------------
(* The breakdown under concurrent writes *)

\* C29: whatever an expense creation, update or deletion commits between
\* the two statements of a category_breakdown request, the rows' totals of
\* the response add up to no more than its total_amount, no percentage
\* exceeds 100, and the percentages add up to no more than 100 and their
\* rounding
C29_BreakdownSnapshot ==
    request.op = "category_breakdown" /\ response.status = 200 =>
        LET list == response.body.categories
        IN  /\ SumCents(list, "total_amount", Len(list))
                   <= MoneyCents(response.body.total_amount)
            /\ \A i \in 1..Len(list) : MoneyCents(list[i].percentage) <= 10000
            /\ 2 * SumCents(list, "percentage", Len(list)) <= 20000 + Len(list)

----------------------------------------------------------------------------
(* Projection bounds *)

\* C30: whatever the month asked for and the clock, get_insights has
\* 1 <= days_passed <= days_in_month, so that the daily average divides by
\* no zero, and projected_total is no less than the month's total; when the
\* month has fully elapsed (days_passed = days_in_month) the rendered
\* projected_total is the rendered total of the month
C30_ProjectionBounds ==
    request.op = "get_insights" /\ response.status = 200 =>
        LET current_total == SumField(RowsInMonth(expenses, TokenYear(request.month),
                                                  TokenMonth(request.month)), "amount")
            passed == response.body.days_passed
        IN  /\ 1 <= passed
            /\ passed <= response.body.days_in_month
            /\ MoneyCents(response.body.projected_total) >= current_total
            /\ passed = response.body.days_in_month =>
                   response.body.projected_total = format_amount(current_total, 100)

\* April 2024 asked on the first of May: 30 days of 30 have passed, and
\* the 100.13 spent is the projection
C30_Witness ==
    /\ request.op = "get_insights"
    /\ request.month = M_2024_04
    /\ response.status = 200
    /\ today = <<2024, 5, 1>>
    /\ response.body.days_passed = 30
    /\ response.body.days_in_month = 30
    /\ response.body.projected_total = <<"1", "0", "0", ".", "1", "3">>

----------------------------------------------------------------------------
(* Category names *)

\* no two categories of one owner have the same name
UniquePerOwner ==
    \A c, d \in categories : c.user_id = d.user_id /\ c.name = d.name => c = d

\* the owner holds the name in a category other than id
OwnerHolds(owner, name, id) ==
    \E c \in categories : c.user_id = owner /\ c.name = name /\ c.id # id

\* a request that stores a name answers 409 and changes nothing when its
\* owner holds the name already, and stores the name otherwise, whoever
\* else holds it
NamesStep ==
    /\ request'.op = "create_category" /\ response'.status # 0 /\ request'.name # "" =>
        IF OwnerHolds(request'.caller, request'.name, 0)
        THEN response'.status = 409 /\ categories' = categories
        ELSE /\ response'.status = 201
             /\ \E c \in categories' \ categories :
                    c.user_id = request'.caller /\ c.name = request'.name
    /\ /\ request'.op = "update_category" /\ response'.status # 0 /\ request'.name # ""
       /\ \E c \in categories : c.id = request'.category_id /\ c.user_id = request'.caller
       => IF OwnerHolds(request'.caller, request'.name, request'.category_id)
          THEN response'.status = 409 /\ categories' = categories
          ELSE /\ response'.status = 200
               /\ \E c \in categories' :
                      /\ c.id = request'.category_id
                      /\ c.user_id = request'.caller
                      /\ c.name = request'.name
    /\ request'.op = "seed_categories" =>
        /\ response'.status = 201
        /\ \A k \in 1..Len(INDIAN_CATEGORIES) :
               \E c \in categories' :
                   c.user_id = request'.caller /\ c.name = INDIAN_CATEGORIES[k]

\* C25: after any sequence, interleaved ones included, of create_category,
\* update_category and seed_categories requests no two categories of one
\* owner have the same name; a request that would give its owner a second
\* category of a name answers 409 and changes nothing; and a name that
\* another owner uses never keeps an owner from using it
C25_NamesUniquePerOwner == []UniquePerOwner /\ [][NamesStep]_vars

====
